---- MODULE Spec2Model ----
(***************************************************************************)
(* A state-machine model of the backpressure utilities                     *)
(* (src/src/utils/backpressure.py: CircuitBreaker, RequestQueue) and of    *)
(* the HTTP adapter's request loop (src/src/adapters/horreum.py:           *)
(* HorreumAdapter._post_json).                                              *)
(*                                                                         *)
(* All coroutines run on one asyncio event loop.  A coroutine is suspended *)
(* only at an await that actually blocks; asyncio.Lock.acquire() on a free *)
(* lock returns without yielding and no critical section of these classes  *)
(* awaits while it holds the lock, so every `async with self._lock` block  *)
(* together with the straight-line code around it is one atomic step.      *)
(***************************************************************************)
EXTENDS Integers, Sequences, FiniteSets

\* ------------------------------------------------------------------------
\* Bounds of the model
\* ------------------------------------------------------------------------
MaxTime == 6         \* the clock runs over 1..MaxTime (whole seconds)
NumCalls == 2        \* coroutines that may be inside CircuitBreaker.call at once

\* ------------------------------------------------------------------------
\* Configuration (CircuitBreakerConfig)
\* ------------------------------------------------------------------------
failure_threshold == 3
success_threshold == 2
timeout_seconds == 2

\* Optional[float] fields hold None until a time is recorded.
None == -1

CLOSED == "closed"
OPEN == "open"
HALF_OPEN == "half_open"

VARIABLES
    now,            \* time.time()
    lastOp,         \* the step taken last
    \* --- CircuitBreaker ---
    cb,             \* the CircuitBreaker object: state, failure_count,
                    \* success_count, last_failure_time, opened_at
    cpc,            \* per coroutine: "idle" or "running" (inside await func())
    sinceSuccess,   \* history: counted failures completed since the last success
    hoLog,          \* history: outcomes of the calls that completed in HALF_OPEN
                    \* since it was entered (the last success_threshold of them)
    hoSucc,         \* history: successes completed in HALF_OPEN since it was entered
    \* --- HorreumAdapter ---
    session_id,     \* HorreumAdapter._session_id
    op,             \* the running _post_json: pc, attempt, last_exc, posts,
                    \* the header of its latest POST, error
    lastResp,       \* history: the outcome of the latest POST of the tool request
    opFails,        \* history: consecutive operations that ended in a counted failure
    trippedAt,      \* history: when opFails reached failure_threshold
    \* --- RequestQueue ---
    queue_size,     \* RequestQueue._queue_size
    permits,        \* RequestQueue._semaphore._value
    waiters,        \* RequestQueue._semaphore._waiters: the callers in it
    qpc,            \* per caller of execute(): where it is
    \* --- RateLimiter ---
    rl_config,      \* RateLimiter.config: enable_rate_limiting, admin_bypass_key
    clients,        \* RateLimiter._clients: per client the two deques
    rl_result,      \* the latest check_rate_limit call and what it returned
    \* --- gather_partial ---
    gp,             \* the latest gather_partial call and what it did
    \* --- source-driven get_key_metrics ---
    freq,           \* the request being served
    fx,             \* the fetch serving it: where it is and its local variables
    fcalls,         \* history: the backend calls made for the request, in order
    served,         \* history: the datasets_search responses it was given
    \* --- _merge_metric_points ---
    label_in,       \* the points extracted from label values
    dataset_in,     \* the points extracted from datasets
    merge_out,      \* the latest merge: its strategy and the list it returned
    \* --- QueryOrchestrator ---
    max_iterations,         \* self.max_iterations
    conversation_history,   \* self.conversation_history
    ox,             \* per execute_query call: where it is and its locals
    llm_seen,       \* history: per call, the list each of its LLM calls was given
    oresult,        \* per execute_query call: what it returned
    \* --- normalize_get_key_metrics_params ---
    norm,           \* the latest normalization: its input and its results
    \* --- plugin registry and HTTP app ---
    registry,       \* domain.plugins._registry: the ids registered
    happ,           \* the app create_app built: its phase and its enabled_plugins
    hreq,           \* the latest get_key_metrics_raw request and its answer
    \* --- MCPBridgeAdapter under the dataset fan-out ---
    bridge_timeout, \* MCPBridgeAdapter._timeout
    fanout,         \* the latest fetch_datasets_with_fallback and its PartialResult
    \* --- POST /api/query ---
    areq,           \* per request to /api/query: where it is and its answer
    api_clients,    \* the endpoint's RateLimiter._clients
    admitted,       \* history: the requests handed to the orchestrator
    \* --- Elasticsearch adapter under the pagination loop ---
    esx,            \* the running pagination loop: where it is and its locals
    es_resp         \* the latest datasets_search response

breakerVars == <<cb, cpc, sinceSuccess, hoLog, hoSucc>>
adapterVars == <<session_id, op, lastResp, opFails, trippedAt>>
queueVars == <<queue_size, permits, waiters, qpc>>
utilVars == <<breakerVars, adapterVars, queueVars>>
limiterVars == <<rl_config, clients, rl_result>>
gatherVars == <<gp>>
fetchVars == <<freq, fx, fcalls, served>>
mergeVars == <<label_in, dataset_in, merge_out>>
orchVars == <<max_iterations, conversation_history, ox, llm_seen, oresult>>
normVars == <<norm>>
pluginVars == <<registry, happ, hreq>>
bridgeVars == <<bridge_timeout, fanout>>
apiVars == <<areq, api_clients, admitted>>
esVars == <<esx, es_resp>>
serverVars ==
    <<limiterVars, gatherVars, fetchVars, mergeVars, orchVars,
      normVars, pluginVars, bridgeVars, apiVars, esVars>>
restOfLimiter ==
    <<utilVars, gatherVars, fetchVars, mergeVars, orchVars, normVars,
      pluginVars, bridgeVars, apiVars, esVars>>
restOfGather ==
    <<utilVars, limiterVars, fetchVars, mergeVars, orchVars, normVars,
      pluginVars, bridgeVars, apiVars, esVars>>
restOfFetch ==
    <<utilVars, limiterVars, gatherVars, mergeVars, orchVars, normVars,
      pluginVars, bridgeVars, apiVars, esVars>>
restOfMerge ==
    <<utilVars, limiterVars, gatherVars, fetchVars, orchVars, normVars,
      pluginVars, bridgeVars, apiVars, esVars>>
restOfOrch ==
    <<utilVars, limiterVars, gatherVars, fetchVars, mergeVars,
      normVars, pluginVars, bridgeVars, apiVars, esVars>>
restOfNorm ==
    <<utilVars, limiterVars, gatherVars, fetchVars, mergeVars,
      orchVars, pluginVars, bridgeVars, apiVars, esVars>>
restOfPlugins ==
    <<utilVars, limiterVars, gatherVars, fetchVars, mergeVars,
      orchVars, normVars, bridgeVars, apiVars, esVars>>
restOfBridge ==
    <<utilVars, limiterVars, gatherVars, fetchVars, mergeVars,
      orchVars, normVars, pluginVars, apiVars, esVars>>
restOfApi ==
    <<utilVars, limiterVars, gatherVars, fetchVars, mergeVars,
      orchVars, normVars, pluginVars, bridgeVars, esVars>>
restOfEs ==
    <<utilVars, limiterVars, gatherVars, fetchVars, mergeVars,
      orchVars, normVars, pluginVars, bridgeVars, apiVars>>
vars == <<now, lastOp, utilVars, serverVars>>

Calls == 1..NumCalls

\* ------------------------------------------------------------------------
\* Exceptions a wrapped function may raise
\* ------------------------------------------------------------------------
HTTPStatusError(code) == [type |-> "HTTPStatusError", status |-> code]
OtherError(t) == [type |-> t, status |-> 0]

Excs ==
    {HTTPStatusError(c) : c \in {400, 404, 429, 500, 503}}
    \cup {OtherError(t) : t \in {"TimeoutException", "ConnectError",
                                  "asyncio.TimeoutError", "ValueError"}}

\* ------------------------------------------------------------------------
\* CircuitBreaker
\* ------------------------------------------------------------------------
CircuitBreakerInit ==
    [state |-> CLOSED, failure_count |-> 0, success_count |-> 0,
     last_failure_time |-> None, opened_at |-> None]

\* Faulty variant: every exception counts toward the threshold.
should_count_failure_all(exc) == TRUE

should_count_failure(exc) ==
    IF exc.type = "HTTPStatusError"
    THEN exc.status >= 500 \/ exc.status = 429
    ELSE IF exc.type \in {"TimeoutException", "ConnectError"}
    THEN TRUE
    ELSE IF exc.type = "asyncio.TimeoutError"
    THEN TRUE
    ELSE FALSE

\* Faulty variant: the timeout is not checked at all.
timeout_passed_always(b, t) == TRUE

\* Faulty variant: the timeout is taken one second short.
timeout_passed_early(b, t) ==
    b.opened_at # None /\ b.opened_at # 0
    /\ t - b.opened_at >= timeout_seconds - 1

\* call(): `self.opened_at and time.time() - self.opened_at >= timeout_seconds`
timeout_passed(b, t) ==
    b.opened_at # None /\ b.opened_at # 0
    /\ t - b.opened_at >= timeout_seconds

\* call(): the OPEN -> HALF_OPEN assignment
to_half_open(b) == [b EXCEPT !.state = HALF_OPEN, !.success_count = 0]

\* call() up to `await func(...)`: "blocked" raises RuntimeError, the two
\* others go on to invoke func.
call_gate(b, t) ==
    IF b.state = OPEN
    THEN IF timeout_passed(b, t) THEN "half_open" ELSE "blocked"
    ELSE "pass"

\* Faulty variant: HALF_OPEN closes only above the threshold.
on_success_late(b) ==
    IF b.state = HALF_OPEN
    THEN IF b.success_count + 1 > success_threshold
         THEN [b EXCEPT !.state = CLOSED, !.success_count = @ + 1,
                        !.failure_count = 0, !.last_failure_time = None,
                        !.opened_at = None]
         ELSE [b EXCEPT !.success_count = @ + 1]
    ELSE IF b.state = CLOSED
    THEN [b EXCEPT !.failure_count = 0, !.last_failure_time = None]
    ELSE b

on_success(b) ==
    IF b.state = HALF_OPEN
    THEN IF b.success_count + 1 >= success_threshold
         THEN [b EXCEPT !.state = CLOSED, !.success_count = @ + 1,
                        !.failure_count = 0, !.last_failure_time = None,
                        !.opened_at = None]
         ELSE [b EXCEPT !.success_count = @ + 1]
    ELSE IF b.state = CLOSED
    THEN [b EXCEPT !.failure_count = 0, !.last_failure_time = None]
    ELSE b

\* Faulty variant: a counted failure in HALF_OPEN does not reopen the circuit.
on_failure_no_reopen(b, exc, t) ==
    IF should_count_failure(exc)
    THEN IF b.state = CLOSED /\ b.failure_count + 1 >= failure_threshold
         THEN [b EXCEPT !.last_failure_time = t, !.failure_count = @ + 1,
                        !.state = OPEN, !.opened_at = t]
         ELSE [b EXCEPT !.last_failure_time = t, !.failure_count = @ + 1]
    ELSE [b EXCEPT !.last_failure_time = t]

on_failure(b, exc, t) ==
    IF should_count_failure(exc)
    THEN IF b.state = HALF_OPEN
         THEN [b EXCEPT !.last_failure_time = t, !.failure_count = @ + 1,
                        !.state = OPEN, !.opened_at = t]
         ELSE IF b.state = CLOSED /\ b.failure_count + 1 >= failure_threshold
         THEN [b EXCEPT !.last_failure_time = t, !.failure_count = @ + 1,
                        !.state = OPEN, !.opened_at = t]
         ELSE [b EXCEPT !.last_failure_time = t, !.failure_count = @ + 1]
    ELSE [b EXCEPT !.last_failure_time = t]

\* The failures the breaker is documented to count: HTTP status >= 500,
\* HTTP 429, timeouts and connect errors.
DocumentedCounted(exc) ==
    \/ exc.type = "HTTPStatusError" /\ (exc.status >= 500 \/ exc.status = 429)
    \/ exc.type \in {"TimeoutException", "ConnectError", "asyncio.TimeoutError"}

OutcomeKind(exc) == IF DocumentedCounted(exc) THEN "counted" ELSE "uncounted"

LastN(s, n) == IF Len(s) <= n THEN s ELSE SubSeq(s, Len(s) - n + 1, Len(s))

\* time.time() advances.
Tick ==
    /\ now < MaxTime
    /\ now' = now + 1
    /\ lastOp' = "tick"
    /\ UNCHANGED <<breakerVars, adapterVars, queueVars, serverVars>>

\* call(), from its entry to the point where func is awaited or the
\* circuit-open RuntimeError is raised.
CallEnter(c) ==
    /\ cpc[c] = "idle"
    /\ LET gate == call_gate(cb, now) IN
       \/ /\ gate = "blocked"
          /\ lastOp' = "blocked"
          /\ UNCHANGED <<cb, cpc, hoLog, hoSucc>>
       \/ /\ gate = "half_open"
          /\ cb' = to_half_open(cb)
          /\ cpc' = [cpc EXCEPT ![c] = "running"]
          /\ hoLog' = <<>>
          /\ hoSucc' = 0
          /\ lastOp' = "half_open"
       \/ /\ gate = "pass"
          /\ cpc' = [cpc EXCEPT ![c] = "running"]
          /\ lastOp' = "entered"
          /\ UNCHANGED <<cb, hoLog, hoSucc>>
    /\ UNCHANGED <<now, sinceSuccess>>
    /\ UNCHANGED <<adapterVars, queueVars, serverVars>>

\* func returned: _on_success(), then call() returns the result.
CallSuccess(c) ==
    /\ cpc[c] = "running"
    /\ cb' = on_success(cb)
    /\ cpc' = [cpc EXCEPT ![c] = "idle"]
    /\ lastOp' = "success"
    /\ sinceSuccess' = 0
    /\ hoLog' = IF cb.state = HALF_OPEN
                THEN LastN(Append(hoLog, "ok"), success_threshold) ELSE hoLog
    /\ hoSucc' = IF cb.state = HALF_OPEN THEN hoSucc + 1 ELSE hoSucc
    /\ UNCHANGED now
    /\ UNCHANGED <<adapterVars, queueVars, serverVars>>

\* func raised exc: _on_failure(exc), then call() re-raises.
CallFailure(c) ==
    /\ cpc[c] = "running"
    /\ \E exc \in Excs :
        /\ cb' = on_failure(cb, exc, now)
        /\ sinceSuccess' = IF DocumentedCounted(exc)
                           THEN sinceSuccess + 1 ELSE sinceSuccess
        /\ hoLog' = IF cb.state = HALF_OPEN
                    THEN LastN(Append(hoLog, OutcomeKind(exc)), success_threshold)
                    ELSE hoLog
    /\ cpc' = [cpc EXCEPT ![c] = "idle"]
    /\ lastOp' = "failure"
    /\ UNCHANGED <<now, hoSucc>>
    /\ UNCHANGED <<adapterVars, queueVars, serverVars>>

\* reset(): back to the constructed state; the histories restart with it.
Reset ==
    /\ cb # CircuitBreakerInit
    /\ cb' = CircuitBreakerInit
    /\ lastOp' = "reset"
    /\ sinceSuccess' = 0
    /\ hoLog' = <<>>
    /\ hoSucc' = 0
    /\ UNCHANGED <<now, cpc>>
    /\ UNCHANGED <<adapterVars, queueVars, serverVars>>

BreakerInit ==
    /\ cb = CircuitBreakerInit
    /\ cpc = [c \in Calls |-> "idle"]
    /\ sinceSuccess = 0
    /\ hoLog = <<>>
    /\ hoSucc = 0

BreakerNext ==
    \/ \E c \in Calls : CallEnter(c)
    \/ \E c \in Calls : CallSuccess(c)
    \/ \E c \in Calls : CallFailure(c)
    \/ Reset

\* ------------------------------------------------------------------------
\* HorreumAdapter._post_json
\* ------------------------------------------------------------------------
max_retries == 2

NoSession == "none"
Sessions == {"s1", "s2"}

Resp(k, s, h) == [kind |-> k, status |-> s, reinit |-> h]
NoExc == Resp("none", 0, FALSE)

\* What one POST of the tool request can come to: a 2xx answer with a JSON
\* body, a 2xx answer whose body is no JSON, a read timeout, a connect
\* error, another transport error, or a status error with or without a
\* session-reinit header.
Responses ==
    {Resp("ok", 200, FALSE), Resp("badjson", 200, FALSE),
     Resp("ReadTimeout", 0, FALSE), Resp("ConnectError", 0, FALSE),
     Resp("WriteError", 0, FALSE)}
    \cup {Resp("HTTPStatusError", s, h) :
            s \in {401, 403, 404, 429, 440, 500, 502, 503}, h \in BOOLEAN}

OpInit ==
    [pc |-> "idle", attempt |-> 0, last_exc |-> NoExc, posts |-> 0,
     header |-> NoSession, error |-> NoExc]

\* Faulty variant: the loop admits one attempt more.
loop_guard_extra(attempt) == attempt <= max_retries + 1

\* `while attempt <= self._max_retries`
loop_guard(attempt) == attempt <= max_retries

\* The HTTPStatusError branch: retry or raise.
retry_status(r, attempt) ==
    /\ r.status \in {401, 403, 429, 440, 503} \/ r.reinit
    /\ attempt < max_retries

\* The HTTPStatusError branch: call init_session() before the retry.
wants_session(r) == r.status \in {401, 403, 440} \/ r.reinit

\* The top of the loop: the tool request is POSTed, with the mcp-session-id
\* header when self._session_id is set, or the else clause raises last_exc.
loop_head_post(o, sid) ==
    IF loop_guard(o.attempt)
    THEN [o EXCEPT !.pc = "post", !.posts = @ + 1, !.header = sid]
    ELSE [o EXCEPT !.pc = "raised", !.error = o.last_exc]

\* The POST of the tool request came to r: the rest of the iteration up to
\* its next await (init_session or the backoff sleep), or what follows the
\* loop when the iteration leaves it.
post_step(o, r) ==
    IF r.kind = "ok" THEN [o EXCEPT !.pc = "returned"]
    ELSE IF r.kind = "badjson"
    THEN [o EXCEPT !.pc = "raised", !.error = Resp("ValueError", 0, FALSE)]
    ELSE IF r.kind \in {"ReadTimeout", "ConnectError"}
    THEN [o EXCEPT !.last_exc = r, !.pc = "sleep"]
    ELSE IF r.kind = "HTTPStatusError"
    THEN IF retry_status(r, o.attempt)
         THEN [o EXCEPT !.last_exc = r,
                        !.pc = IF wants_session(r) THEN "init" ELSE "sleep"]
         ELSE [o EXCEPT !.last_exc = r, !.pc = "raised", !.error = r]
    ELSE [o EXCEPT !.pc = "raised", !.error = r]

\* What a call of init_session() comes to: a session id (from the body or
\* the header), None (an httpx.HTTPError, or an answer without an id), or
\* an exception it does not catch (a 2xx body that is no JSON, or JSON that
\* is no object).
InitOutcome(k, s) == [kind |-> k, sid |-> s]
InitOutcomes ==
    {InitOutcome("sid", s) : s \in Sessions}
    \cup {InitOutcome("none", NoSession)}
    \cup {InitOutcome(e, NoSession) : e \in {"ValueError", "AttributeError"}}

\* self._session_id after init_session() came to i.
init_session(cur, i) == IF i.kind = "sid" THEN i.sid ELSE cur

\* The error a finished operation raised, as the breaker would count it.
AdapterCounted(e) ==
    \/ e.kind = "HTTPStatusError" /\ (e.status >= 500 \/ e.status = 429)
    \/ e.kind \in {"ReadTimeout", "ConnectError"}

\* History: consecutive operations ended in a counted failure, once the
\* operation is at o.
failures_after(o) ==
    IF o.pc = "raised" /\ AdapterCounted(o.error)
    THEN IF opFails < failure_threshold THEN opFails + 1 ELSE opFails
    ELSE IF o.pc = "returned" \/ o.pc = "raised" THEN 0 ELSE opFails

tripped_after(o) ==
    IF failures_after(o) = failure_threshold /\ opFails < failure_threshold
    THEN now
    ELSE IF failures_after(o) = 0 THEN None ELSE trippedAt

\* A contract operation (datasets_search, ...) calls _post_json, which
\* runs up to the await of its first POST.
StartOp ==
    /\ op.pc \in {"idle", "returned", "raised"}
    /\ op' = loop_head_post(OpInit, session_id)
    /\ lastOp' = "start"
    /\ UNCHANGED <<now, session_id, lastResp, opFails, trippedAt>>
    /\ UNCHANGED <<breakerVars, queueVars, serverVars>>

\* The POST of one loop iteration completes.
Post ==
    /\ op.pc = "post"
    /\ \E r \in Responses :
        /\ op' = post_step(op, r)
        /\ lastResp' = r
        /\ opFails' = failures_after(post_step(op, r))
        /\ trippedAt' = tripped_after(post_step(op, r))
    /\ lastOp' = "post"
    /\ UNCHANGED <<now, session_id>>
    /\ UNCHANGED <<breakerVars, queueVars, serverVars>>

\* The init_session() awaited by the HTTPStatusError branch completes: it
\* returns (and _post_json goes on to its backoff sleep) or raises out of
\* _post_json.
OpInitSession ==
    /\ op.pc = "init"
    /\ \E i \in InitOutcomes :
        LET o == IF i.kind \in {"sid", "none"}
                 THEN [op EXCEPT !.pc = "sleep"]
                 ELSE [op EXCEPT !.pc = "raised",
                                 !.error = Resp(i.kind, 0, FALSE)]
        IN  /\ op' = o
            /\ session_id' = init_session(session_id, i)
            /\ opFails' = failures_after(o)
            /\ trippedAt' = tripped_after(o)
    /\ lastOp' = "op_init_session"
    /\ UNCHANGED <<now, lastResp>>
    /\ UNCHANGED <<breakerVars, queueVars, serverVars>>

\* The backoff sleep is over: attempt += 1, continue.
Backoff ==
    /\ op.pc = "sleep"
    /\ LET o == loop_head_post([op EXCEPT !.attempt = @ + 1], session_id)
       IN  /\ op' = o
           /\ opFails' = failures_after(o)
           /\ trippedAt' = tripped_after(o)
    /\ lastOp' = "backoff"
    /\ UNCHANGED <<now, session_id, lastResp>>
    /\ UNCHANGED <<breakerVars, queueVars, serverVars>>

\* HorreumAdapter.init_session() called on its own (the app's startup, or
\* another operation's coroutine) completes, whatever _post_json is at.
InitSession ==
    /\ \E i \in InitOutcomes :
        session_id' = init_session(session_id, i)
    /\ lastOp' = "init_session"
    /\ UNCHANGED <<now, op, lastResp, opFails, trippedAt>>
    /\ UNCHANGED <<breakerVars, queueVars, serverVars>>

AdapterInit ==
    /\ session_id = NoSession
    /\ op = OpInit
    /\ lastResp = NoExc
    /\ opFails = 0
    /\ trippedAt = None

AdapterNext ==
    \/ StartOp
    \/ Post
    \/ OpInitSession
    \/ Backoff
    \/ InitSession

\* ------------------------------------------------------------------------
\* RequestQueue
\* ------------------------------------------------------------------------
NumTasks == 4
max_concurrent == 2
max_queue_size == 1

Tasks == 1..NumTasks

\* Callers suspended in Semaphore.acquire(): their future is pending
\* ("waiting"), was given a permit by release() and they have not resumed
\* yet ("woken"), or was cancelled and they have not resumed yet
\* ("cancelling").
Waiting == {c \in Tasks : qpc[c] \in {"waiting", "woken", "cancelling"}}
Woken == {c \in Tasks : qpc[c] = "woken"}
Running == {c \in Tasks : qpc[c] = "running"}

\* Faulty variant: the semaphore never blocks.
sem_locked_never(value, ws, q) == FALSE

\* asyncio.Semaphore.locked(): the counter is 0, or a waiter whose future
\* is not cancelled is still in the deque (a woken waiter stays there
\* until it resumes).
sem_locked(value, ws, q) ==
    value = 0 \/ \E i \in 1..Len(ws) : q[ws[i]] # "cancelling"

\* The semaphore's counter and the callers' futures.
Sem(value, q) == [value |-> value, qpc |-> q]

\* Semaphore._wake_up_next(): the first waiter whose future is not done
\* takes one from the counter and has its future set.
wake_up_next(value, ws, q) ==
    LET pending == {i \in 1..Len(ws) : q[ws[i]] = "waiting"} IN
    IF pending = {} THEN Sem(value, q)
    ELSE LET first == CHOOSE i \in pending : \A j \in pending : i <= j
         IN  Sem(value - 1, [q EXCEPT ![ws[first]] = "woken"])

\* Semaphore.release()
release(value, ws, q) == wake_up_next(value + 1, ws, q)

\* deque.remove(fut)
remove(ws, c) == SelectSeq(ws, LAMBDA w : w # c)

\* execute(), from its entry to the first await that blocks: the queue-full
\* RuntimeError, or the counter bump and then either the wait for the
\* semaphore or, with the semaphore not locked, the decrement and the start
\* of func.
Enter(c) ==
    /\ qpc[c] = "idle"
    /\ IF queue_size >= max_queue_size
       THEN /\ qpc' = [qpc EXCEPT ![c] = "rejected"]
            /\ UNCHANGED <<queue_size, permits, waiters>>
       ELSE IF sem_locked(permits, waiters, qpc)
       THEN /\ qpc' = [qpc EXCEPT ![c] = "waiting"]
            /\ waiters' = Append(waiters, c)
            /\ queue_size' = queue_size + 1
            /\ UNCHANGED permits
       ELSE /\ qpc' = [qpc EXCEPT ![c] = "running"]
            /\ permits' = permits - 1
            /\ queue_size' = (queue_size + 1) - 1
            /\ UNCHANGED waiters
    /\ lastOp' = "enter"
    /\ UNCHANGED <<now, breakerVars, adapterVars, serverVars>>

\* A woken waiter resumes: it leaves the deque, passes a spare permit on,
\* then the decrement, and func starts.
Acquire(c) ==
    /\ qpc[c] = "woken"
    /\ LET ws == remove(waiters, c)
           s == IF permits > 0 THEN wake_up_next(permits, ws, qpc)
                ELSE Sem(permits, qpc)
       IN  /\ waiters' = ws
           /\ permits' = s.value
           /\ qpc' = [s.qpc EXCEPT ![c] = "running"]
    /\ queue_size' = queue_size - 1
    /\ lastOp' = "acquire"
    /\ UNCHANGED <<now, breakerVars, adapterVars, serverVars>>

\* func returned: the semaphore is released and execute() returns.
Return(c) ==
    /\ qpc[c] = "running"
    /\ LET s == release(permits, waiters, qpc)
       IN  /\ permits' = s.value
           /\ qpc' = [s.qpc EXCEPT ![c] = "returned"]
    /\ lastOp' = "return"
    /\ UNCHANGED <<queue_size, waiters, now, breakerVars, adapterVars,
                   serverVars>>

\* func raised an Exception: the semaphore is released, then the
\* `except Exception` clause decrements the counter and re-raises.
Raise(c) ==
    /\ qpc[c] = "running"
    /\ LET s == release(permits, waiters, qpc)
       IN  /\ permits' = s.value
           /\ qpc' = [s.qpc EXCEPT ![c] = "raised"]
    /\ queue_size' = queue_size - 1
    /\ lastOp' = "raise"
    /\ UNCHANGED <<waiters, now, breakerVars, adapterVars, serverVars>>

\* The caller's task is cancelled while its future is pending: the future
\* is cancelled and stays in the deque until the task resumes.
CancelWaiting(c) ==
    /\ qpc[c] = "waiting"
    /\ qpc' = [qpc EXCEPT ![c] = "cancelling"]
    /\ lastOp' = "cancel_waiting"
    /\ UNCHANGED <<queue_size, permits, waiters, now, breakerVars,
                   adapterVars, serverVars>>

\* The cancelled waiter resumes with CancelledError: it leaves the deque;
\* CancelledError is no Exception, so the except clause of execute() does
\* not run.
Cancelled(c) ==
    /\ qpc[c] = "cancelling"
    /\ waiters' = remove(waiters, c)
    /\ qpc' = [qpc EXCEPT ![c] = "cancelled"]
    /\ lastOp' = "cancelled"
    /\ UNCHANGED <<queue_size, permits, now, breakerVars, adapterVars,
                   serverVars>>

\* The caller's task was cancelled after release() had set its future: it
\* resumes with CancelledError, leaves the deque, gives the permit back and
\* wakes the next waiter.
CancelWoken(c) ==
    /\ qpc[c] = "woken"
    /\ LET ws == remove(waiters, c)
           s == wake_up_next(permits + 1, ws, qpc)
       IN  /\ waiters' = ws
           /\ permits' = s.value
           /\ qpc' = [s.qpc EXCEPT ![c] = "cancelled"]
    /\ lastOp' = "cancel_woken"
    /\ UNCHANGED <<queue_size, now, breakerVars, adapterVars, serverVars>>

\* The caller's task is cancelled inside func: the semaphore is released,
\* the except clause does not run.
CancelRunning(c) ==
    /\ qpc[c] = "running"
    /\ LET s == release(permits, waiters, qpc)
       IN  /\ permits' = s.value
           /\ qpc' = [s.qpc EXCEPT ![c] = "cancelled"]
    /\ lastOp' = "cancel_running"
    /\ UNCHANGED <<queue_size, waiters, now, breakerVars, adapterVars,
                   serverVars>>

QueueInit ==
    /\ queue_size = 0
    /\ permits = max_concurrent
    /\ waiters = <<>>
    /\ qpc = [c \in Tasks |-> "idle"]

QueueNext ==
    \/ \E c \in Tasks : Enter(c)
    \/ \E c \in Tasks : Acquire(c)
    \/ \E c \in Tasks : Return(c)
    \/ \E c \in Tasks : Raise(c)
    \/ \E c \in Tasks : CancelWaiting(c)
    \/ \E c \in Tasks : Cancelled(c)
    \/ \E c \in Tasks : CancelWoken(c)
    \/ \E c \in Tasks : CancelRunning(c)

\* ------------------------------------------------------------------------
\* RateLimiter (src/src/server/rate_limiter.py)
\* ------------------------------------------------------------------------
requests_per_hour == 2
tokens_per_hour == 2
window_size_seconds == 2
MaxEntries == 2      \* requests the limiter holds at a time, all clients together

Clients == {"c1", "c2"}

\* Optional[str]: None, or a string (the empty one included).
NoKey == "None"
ConfigKeys == {NoKey, "", "k1"}
RequestKeys == {NoKey, "", "k1", "k2"}

\* tokens_used of record_request: None or an int.
TokenInputs == {None, 0, 2}

RateLimitConfig(enable, key) ==
    [enable_rate_limiting |-> enable, admin_bypass_key |-> key]

\* RateLimitState(): two empty deques.
RateLimitState == [request_timestamps |-> <<>>, token_usage |-> <<>>]

\* Faulty variant: nothing is ever evicted.
popleft_while_old_never(deque, window_start) == deque

\* while deque and deque[0] < window_start: deque.popleft()
RECURSIVE popleft_while_old(_, _)
popleft_while_old(deque, window_start) ==
    IF deque # <<>> /\ Head(deque) < window_start
    THEN popleft_while_old(Tail(deque), window_start)
    ELSE deque

\* while deque and deque[0][0] < window_start: deque.popleft()
RECURSIVE popleft_while_old_usage(_, _)
popleft_while_old_usage(deque, window_start) ==
    IF deque # <<>> /\ Head(deque)[1] < window_start
    THEN popleft_while_old_usage(Tail(deque), window_start)
    ELSE deque

clean_old_entries(state, window_start) ==
    [request_timestamps |->
         popleft_while_old(state.request_timestamps, window_start),
     token_usage |->
         popleft_while_old_usage(state.token_usage, window_start)]

\* sum(tokens for _, tokens in state.token_usage)
RECURSIVE token_sum(_)
token_sum(usage) ==
    IF usage = <<>> THEN 0 ELSE Head(usage)[2] + token_sum(Tail(usage))

\* admin_key and config.admin_bypass_key and admin_key == config.admin_bypass_key
\* (None and the empty string are both falsy)
admin_bypass(config, admin_key) ==
    /\ admin_key # NoKey /\ admin_key # ""
    /\ config.admin_bypass_key # NoKey /\ config.admin_bypass_key # ""
    /\ admin_key = config.admin_bypass_key

\* check_rate_limit: the (allowed, reason) it returns and the client's state
\* it leaves behind.
check_rate_limit(config, state, admin_key, t) ==
    IF admin_bypass(config, admin_key)
    THEN [allowed |-> TRUE, why |-> "admin", state |-> state]
    ELSE IF ~config.enable_rate_limiting
    THEN [allowed |-> TRUE, why |-> "disabled", state |-> state]
    ELSE LET cleaned == clean_old_entries(state, t - window_size_seconds)
         IN  IF Len(cleaned.request_timestamps) >= requests_per_hour
             THEN [allowed |-> FALSE, why |-> "requests", state |-> cleaned]
             ELSE IF token_sum(cleaned.token_usage) >= tokens_per_hour
             THEN [allowed |-> FALSE, why |-> "tokens", state |-> cleaned]
             ELSE [allowed |-> TRUE, why |-> "ok", state |-> cleaned]

record_request(state, tokens_used, t) ==
    [request_timestamps |-> Append(state.request_timestamps, t),
     token_usage |->
         IF tokens_used # None /\ tokens_used > 0
         THEN Append(state.token_usage, <<t, tokens_used>>)
         ELSE state.token_usage]

\* get_client_stats: the client's state it leaves behind (old entries are
\* cleaned whatever the configuration is).
get_client_stats(state, t) == clean_old_entries(state, t - window_size_seconds)

\* len(request_timestamps) summed over the clients.
RECURSIVE held_by(_, _)
held_by(cs, ids) ==
    IF ids = {} THEN 0
    ELSE LET c == CHOOSE x \in ids : TRUE
         IN  Len(cs[c].request_timestamps) + held_by(cs, ids \ {c})
entries_held(cs) == held_by(cs, Clients)

\* No check_rate_limit result is at hand: none was asked for yet, or the
\* caller went on to record_request.
NoResult == [client_id |-> "none", admin_key |-> NoKey, allowed |-> TRUE]

\* RateLimiter(config), once, before any request is served.
NewRateLimiter(enable, key) ==
    /\ lastOp = "init"
    /\ rl_config' = RateLimitConfig(enable, key)
    /\ clients' = [c \in Clients |-> RateLimitState]
    /\ lastOp' = "new_limiter"
    /\ UNCHANGED <<now, rl_result, restOfLimiter>>

CheckRateLimit(client_id, admin_key) ==
    LET r == check_rate_limit(rl_config, clients[client_id], admin_key, now)
    IN  /\ clients' = [clients EXCEPT ![client_id] = r.state]
        /\ rl_result' = [client_id |-> client_id, admin_key |-> admin_key,
                         allowed |-> r.allowed]
        /\ lastOp' = "check"
        /\ UNCHANGED <<now, rl_config, restOfLimiter>>

RecordRequest(client_id, tokens_used) ==
    /\ entries_held(clients) < MaxEntries
    /\ clients' = [clients EXCEPT
                     ![client_id] = record_request(@, tokens_used, now)]
    /\ rl_result' = NoResult
    /\ lastOp' = "record"
    /\ UNCHANGED <<now, rl_config, restOfLimiter>>

\* RateLimiter.get_client_stats(client_id)
GetClientStats(client_id) ==
    /\ clients' = [clients EXCEPT ![client_id] = get_client_stats(@, now)]
    /\ lastOp' = "stats"
    /\ UNCHANGED <<now, rl_config, rl_result, restOfLimiter>>

LimiterInit ==
    /\ rl_config = RateLimitConfig(TRUE, NoKey)
    /\ clients = [c \in Clients |-> RateLimitState]
    /\ rl_result = NoResult

LimiterNext ==
    \/ \E enable \in BOOLEAN, key \in ConfigKeys : NewRateLimiter(enable, key)
    \/ \E c \in Clients, k \in RequestKeys : CheckRateLimit(c, k)
    \/ \E c \in Clients, n \in TokenInputs : RecordRequest(c, n)
    \/ \E c \in Clients : GetClientStats(c)

\* ------------------------------------------------------------------------
\* Partial results (src/src/utils/partial_results.py)
\* ------------------------------------------------------------------------
MaxOps == 5          \* operations handed to one gather_partial call

\* min_success_rate, in percent.
Rates == {0, 50, 100}

\* PartialResult.success_rate < min_success_rate, where success_rate is
\* 0.0 for no attempts and successes / total otherwise.
\* Faulty variant: a rate equal to the minimum is refused as well.
below_min_or_equal(successes, failures, min_rate) ==
    IF successes + failures = 0 THEN 0 <= min_rate
    ELSE successes * 100 <= min_rate * (successes + failures)

below_min(successes, failures, min_rate) ==
    IF successes + failures = 0 THEN 0 < min_rate
    ELSE successes * 100 < min_rate * (successes + failures)

\* The identifiers of `ids` that are (not) in `failed`, in order.
keep(ids, failed) == SelectSeq(ids, LAMBDA i : i \notin failed)
drop(ids, failed) == SelectSeq(ids, LAMBDA i : i \in failed)

\* gather_partial over the operations `ids`, those in `failed` raising.
gather_partial(ids, failed, min_rate) ==
    IF ids = <<>>
    THEN [raised |-> "ValueError", successes |-> <<>>, failures |-> <<>>]
    ELSE LET ok == keep(ids, failed)
             ko == drop(ids, failed)
         IN  IF below_min(Len(ok), Len(ko), min_rate)
             THEN [raised |-> "RuntimeError", successes |-> ok, failures |-> ko]
             ELSE [raised |-> "no", successes |-> ok, failures |-> ko]

\* One call of gather_partial: n operations, any of them failing.
GatherPartial(n, failed, min_rate) ==
    /\ gp' = [ids |-> [i \in 1..n |-> i], failed |-> failed,
              min_rate |-> min_rate,
              result |-> gather_partial([i \in 1..n |-> i], failed, min_rate)]
    /\ lastOp' = "gather"
    /\ UNCHANGED <<now, restOfGather>>

GatherInit ==
    gp = [ids |-> <<>>, failed |-> {}, min_rate |-> 0,
          result |-> [raised |-> "none", successes |-> <<>>, failures |-> <<>>]]

GatherNext ==
    \E n \in 0..MaxOps, min_rate \in Rates :
        \E failed \in SUBSET (1..n) : GatherPartial(n, failed, min_rate)

\* ------------------------------------------------------------------------
\* DatasetsGetResponse.content and the bodies taken from it
\* ------------------------------------------------------------------------
\* content: Union[Dict, str, List]; the items of a list are dicts or not.
DICT == "dict"
STR == "str"
LIST == "list"
DictContent == [t |-> DICT, items |-> <<>>]
StrContent == [t |-> STR, items |-> <<>>]
ListContent(items) == [t |-> LIST, items |-> items]

\* A datasets_get response.
DatasetsGetResponse(dataset_id, content) ==
    [dataset_id |-> dataset_id, content |-> content]

\* A dataset body: the content of dataset_id itself (item 0) or the item-th
\* element of its list content.
Body(dataset_id, item) == [dataset_id |-> dataset_id, item |-> item]

\* The bodies one response contributes: a dict content as it is, the dict
\* items of a list content in their order, nothing for anything else.
contents_of(response) ==
    LET c == response.content
    IN  IF c.t = DICT THEN <<Body(response.dataset_id, 0)>>
        ELSE IF c.t = LIST
        THEN LET dicts == SelectSeq([j \in 1..Len(c.items) |-> j],
                                    LAMBDA j : c.items[j] = DICT)
             IN  [k \in 1..Len(dicts) |-> Body(response.dataset_id, dicts[k])]
        ELSE <<>>

\* The loop over the responses that appends to the list of bodies.
RECURSIVE extract_contents(_)
extract_contents(responses) ==
    IF responses = <<>> THEN <<>>
    ELSE contents_of(Head(responses)) \o extract_contents(Tail(responses))

\* How the backends tried answer datasets_get: <<first, rest>>, the content
\* of the first dataset asked for and the content of every other one.
ContentChoices ==
    {<<DictContent, DictContent>>, <<StrContent, DictContent>>,
     <<ListContent(<<DICT, STR, DICT>>), DictContent>>,
     <<StrContent, StrContent>>,
     <<ListContent(<<STR>>), ListContent(<<STR>>)>>}

\* The contents tried.
DatasetContents == {c[1] : c \in ContentChoices}

\* The responses of the datasets `ids`, the backend answering the first of
\* them with content `first` and every other one with `rest`.
responses_of(ids, first, rest) ==
    [i \in 1..Len(ids) |->
        DatasetsGetResponse(ids[i], IF ids[i] = ids[1] THEN first ELSE rest)]

\* ------------------------------------------------------------------------
\* Source-driven get_key_metrics (src/src/server/http.py,
\* src/src/server/mcp_stdio.py)
\* ------------------------------------------------------------------------
MaxPages == 3        \* result pages a backend serves to one request

PREFER_FAST == "prefer_fast"
COMPREHENSIVE == "comprehensive"
LABELS_ONLY == "labels_only"
DATASETS_ONLY == "datasets_only"
MergeStrategies == {PREFER_FAST, COMPREHENSIVE, LABELS_ONLY, DATASETS_ONLY}

\* The three handlers of a source-driven request: _call_get_key_metrics
\* (the tool handler, through _fetch_from_sources), the POST
\* /tools/get_key_metrics endpoint (get_key_metrics_http) and the
\* get_key_metrics tool of the stdio server (mcp_stdio.py).
FROM_SOURCES == "_fetch_from_sources"
HTTP == "get_key_metrics_http"
STDIO == "mcp_stdio.get_key_metrics"
Entries == {FROM_SOURCES, HTTP, STDIO}

\* GetKeyMetricsRequest.limit values tried.
Limits == {1, 2}

\* Pagination.next_page_token is None or the token of the page to ask next.
NoToken == None
min_success_rate == 50   \* _fetch_source_datasets passes 0.5

\* The request as the fetch sees it, after auto-configuration:
\* boot_time - "boot-time-verbose" is among dataset_types,
\* has_test  - test_id is non-empty once test discovery is over.
Request(entry, strategy, boot_time, has_test, limit) ==
    [entry |-> entry, merge_strategy |-> strategy, boot_time |-> boot_time,
     has_test |-> has_test, limit |-> limit]

NoRequest == Request("none", PREFER_FAST, FALSE, FALSE, 1)

\* Local variables of the running fetch.
FetchLocals(pc) ==
    [pc |-> pc, lv_items |-> 0, label_points |-> 0, page_token |-> NoToken,
     page_count |-> 0, dataset_ids |-> <<>>, responses |-> <<>>,
     dataset_bodies |-> <<>>, failures |-> <<>>, error |-> "none"]

fetch_labels(strategy) == strategy \in {PREFER_FAST, COMPREHENSIVE, LABELS_ONLY}
fetch_datasets(strategy) == strategy \in {DATASETS_ONLY, COMPREHENSIVE}

\* Where the request goes first.  The stdio tool tests `req.data is not
\* None`; GetKeyMetricsRequest.data is a list (empty by default), so the
\* tool takes its raw branch on every request and hands that list to
\* get_key_metrics_raw without a call to the backend.
first_step(r) ==
    IF r.entry = FROM_SOURCES
    THEN IF fetch_labels(r.merge_strategy) THEN "labels" ELSE "datasets"
    ELSE IF r.entry = STDIO THEN "done"
    ELSE IF r.has_test THEN "labels" ELSE "datasets"

\* prefer_label_values_when_available asks the backend for label values
\* only for boot-time-verbose and with a test (or run) to ask about; the
\* tool handler's test discovery always ends with a test_id for
\* boot-time-verbose.
asks_label_values(r) ==
    IF r.entry = FROM_SOURCES THEN r.boot_time ELSE r.boot_time /\ r.has_test

\* What prefer_label_values_when_available and plugin.extract can give:
\* <<items, points>>; an error of the backend counts as no items.
LabelOutcomes == {<<0, 0>>, <<1, 0>>, <<1, 1>>}

\* Faulty variant: PREFER_FAST goes on to the datasets although it has points.
returns_labels_never(strategy, label_points) == FALSE

\* if merge_strategy == PREFER_FAST: if label_points: return (label_points, [])
returns_labels(strategy, label_points) ==
    strategy = PREFER_FAST /\ label_points > 0

\* The fetch after the label path, with lv_items and label_points in f.
after_labels(r, f) ==
    IF r.entry = FROM_SOURCES
    THEN IF returns_labels(r.merge_strategy, f.label_points)
         THEN [f EXCEPT !.pc = "done"]
         ELSE IF r.merge_strategy = PREFER_FAST \/ fetch_datasets(r.merge_strategy)
         THEN [f EXCEPT !.pc = "datasets"]
         ELSE IF r.merge_strategy = LABELS_ONLY /\ f.label_points = 0
         THEN [f EXCEPT !.pc = "done", !.error = "ValueError"]
         ELSE [f EXCEPT !.pc = "done"]
    ELSE IF f.lv_items > 0
         THEN [f EXCEPT !.pc = "done"]
         ELSE [f EXCEPT !.pc = "datasets"]

\* A datasets_search response: the dataset ids of the page and its
\* pagination (has_more, next_page_token).
Page(ids, has_more, token) ==
    [ids |-> ids, has_more |-> has_more, next_page_token |-> token]

\* The ids of the k-th page served, n of them.
page_ids(k, n) == [j \in 1..n |-> <<k, j>>]

\* Faulty variant: the loop stops after every page.
continues_never(page) == FALSE

\* Faulty variant: has_more alone keeps the loop going.
continues_on_has_more(page) == page.has_more

\* The pagination loop of _fetch_source_datasets asks for another page.
continues(page) == page.has_more /\ page.next_page_token # NoToken

\* One iteration of the pagination loop of _fetch_source_datasets.
search_step(f, page) ==
    LET g == [f EXCEPT !.page_count = @ + 1,
                       !.dataset_ids = @ \o page.ids]
    IN  IF continues(page)
        THEN [g EXCEPT !.page_token = page.next_page_token]
        ELSE IF g.dataset_ids = <<>>
        THEN [g EXCEPT !.pc = "done"]
        ELSE [g EXCEPT !.pc = "gather"]

\* get_key_metrics_http: one search, then the first `limit` datasets are
\* fetched in a loop (no iteration when the page is empty).
search_once(f, page, limit) ==
    [f EXCEPT !.page_count = @ + 1,
              !.dataset_ids = SubSeq(page.ids, 1,
                                     IF Len(page.ids) < limit
                                     THEN Len(page.ids) ELSE limit),
              !.pc = IF page.ids = <<>> THEN "done" ELSE "get"]

\* One iteration of the loop of get_key_metrics_http whose datasets_get
\* answered with `response`: its bodies are appended.
get_step(f, response) ==
    [f EXCEPT !.responses = Append(@, response),
              !.dataset_bodies = @ \o contents_of(response),
              !.pc = IF Len(f.responses) + 1 = Len(f.dataset_ids)
                     THEN "done" ELSE "get"]

\* The keys of the operations dict fetch_datasets_with_fallback builds
\* from dataset_ids: an id that comes again keeps its first place, and only
\* one datasets_get of it is awaited.
RECURSIVE operations(_)
operations(ids) ==
    IF ids = <<>> THEN <<>>
    ELSE LET before == operations(SubSeq(ids, 1, Len(ids) - 1))
             id == ids[Len(ids)]
         IN  IF \E i \in 1..Len(before) : before[i] = id
             THEN before ELSE Append(before, id)

\* fetch_datasets_with_fallback(adapter, dataset_ids, min_success_rate=0.5):
\* the datasets_get of the ids in `failed` raise, the others answer with
\* `first` (the first id) and `rest`; the successes returned are the bodies
\* taken from the responses.
fan_out(f, failed, first, rest) ==
    LET ids == operations(f.dataset_ids)
        result == gather_partial(ids, failed, min_success_rate)
        responses == SelectSeq(responses_of(ids, first, rest),
                               LAMBDA r : r.dataset_id \notin failed)
    IN  IF result.raised # "no"
        THEN [f EXCEPT !.pc = "done", !.error = result.raised,
                       !.failures = result.failures]
        ELSE [f EXCEPT !.pc = "done", !.responses = responses,
                       !.dataset_bodies = extract_contents(responses),
                       !.failures = result.failures]

\* The datasets_get calls of a list of ids.
get_calls(ids) == [i \in 1..Len(ids) |-> <<"datasets_get", ids[i]>>]

\* The datasets_get outcomes tried for a fan-out: none fails, the first
\* fails, all but the first fail, all fail.
fail_choices(ids) ==
    LET all == {ids[i] : i \in 1..Len(ids)}
    IN  {{}, {ids[1]}, all \ {ids[1]}, all}

\* A source-driven request arrives.  One request is followed: its fetch
\* works on locals only and leaves nothing behind for the next.
StartFetch(entry, strategy, boot_time, has_test, limit) ==
    /\ fx.pc = "idle"
    /\ freq' = Request(entry, strategy, boot_time, has_test, limit)
    /\ fx' = FetchLocals(first_step(freq'))
    /\ fcalls' = <<>>
    /\ served' = <<>>
    /\ lastOp' = "start_fetch"
    /\ UNCHANGED <<now, restOfFetch>>

\* The label path: prefer_label_values_when_available, then plugin.extract.
LabelValues(outcome) ==
    /\ fx.pc = "labels"
    /\ IF asks_label_values(freq)
       THEN /\ fcalls' = Append(fcalls, <<"label_values", NoToken>>)
            /\ fx' = after_labels(freq, [fx EXCEPT !.lv_items = outcome[1],
                                                   !.label_points = outcome[2]])
       ELSE /\ outcome = <<0, 0>>
            /\ fcalls' = fcalls
            /\ fx' = after_labels(freq, fx)
    /\ lastOp' = "label_values"
    /\ UNCHANGED <<now, freq, served, restOfFetch>>

\* adapter.datasets_search answers with a page of n datasets: new ones,
\* or (again) those of the first page once more as the second page.
DatasetsSearch(n, has_more, with_token, again) ==
    LET k == fx.page_count + 1
        page == Page(page_ids(IF again THEN k - 1 ELSE k, n), has_more,
                     IF with_token THEN k + 1 ELSE NoToken)
    IN  /\ fx.pc = "datasets"
        /\ k <= MaxPages
        /\ again => k = 2
        /\ n <= freq.limit
        /\ (freq.entry = FROM_SOURCES /\ k = MaxPages) => ~(has_more /\ with_token)
        /\ fcalls' = Append(fcalls, <<"datasets_search", fx.page_token>>)
        /\ served' = Append(served, page)
        /\ fx' = IF freq.entry = FROM_SOURCES
                 THEN search_step(fx, page)
                 ELSE search_once(fx, page, freq.limit)
        /\ lastOp' = "datasets_search"
        /\ UNCHANGED <<now, freq, restOfFetch>>

\* adapter.datasets_search raises an httpx.HTTPError.
DatasetsSearchFails ==
    /\ fx.pc = "datasets"
    /\ fx.page_count < MaxPages
    /\ fcalls' = Append(fcalls, <<"datasets_search", fx.page_token>>)
    /\ fx' = [fx EXCEPT !.pc = "done", !.error = "upstream_error"]
    /\ lastOp' = "datasets_search_fails"
    /\ UNCHANGED <<now, freq, served, restOfFetch>>

\* _fetch_source_datasets fetches every collected id at once.
GatherDatasets(failed, first, rest) ==
    /\ fx.pc = "gather"
    /\ failed \in fail_choices(fx.dataset_ids)
    /\ fcalls' = fcalls \o get_calls(operations(fx.dataset_ids))
    /\ fx' = fan_out(fx, failed, first, rest)
    /\ lastOp' = "gather_datasets"
    /\ UNCHANGED <<now, freq, served, restOfFetch>>

\* get_key_metrics_http fetches the datasets one after the other, awaiting
\* each datasets_get: the next one answers with `content`, or it raises an
\* httpx.HTTPError, which ends the request (the bodies collected so far are
\* not handed on).
DatasetsGet(answers, content) ==
    LET id == fx.dataset_ids[Len(fx.responses) + 1]
    IN  /\ fx.pc = "get"
        /\ fcalls' = Append(fcalls, <<"datasets_get", id>>)
        /\ fx' = IF answers
                 THEN get_step(fx, DatasetsGetResponse(id, content))
                 ELSE [fx EXCEPT !.pc = "done", !.error = "upstream_error"]
        /\ lastOp' = "datasets_get"
        /\ UNCHANGED <<now, freq, served, restOfFetch>>

FetchInit ==
    /\ freq = NoRequest
    /\ fx = FetchLocals("idle")
    /\ fcalls = <<>>
    /\ served = <<>>

FetchNext ==
    \/ \E entry \in Entries, strategy \in MergeStrategies,
          boot_time \in BOOLEAN, has_test \in BOOLEAN, limit \in Limits :
          StartFetch(entry, strategy, boot_time, has_test, limit)
    \/ \E outcome \in LabelOutcomes : LabelValues(outcome)
    \/ \E n \in {0} \cup Limits, has_more \in BOOLEAN, with_token \in BOOLEAN,
          again \in BOOLEAN :
          DatasetsSearch(n, has_more, with_token, again)
    \/ DatasetsSearchFails
    \/ \E failed \in SUBSET {fx.dataset_ids[i] : i \in 1..Len(fx.dataset_ids)},
          c \in ContentChoices : GatherDatasets(failed, c[1], c[2])
    \/ \E answers \in BOOLEAN, content \in DatasetContents :
          DatasetsGet(answers, content)

\* ------------------------------------------------------------------------
\* Merge and de-duplication (src/src/server/http.py: _merge_metric_points)
\* ------------------------------------------------------------------------
MaxPoints == 3       \* metric points in the two inputs of a merge, together

\* Metric ids, in the order str comparison puts them.
MetricIds == <<"boot.phase.kernel_ms", "boot.time.total_ms">>

\* An aware datetime: the instant it denotes (UTC) and its UTC offset (hours).
Datetime(instant, offset) == [instant |-> instant, offset |-> offset]
Timestamps == {Datetime(1, 0), Datetime(2, 0), Datetime(2, 1)}

\* datetime.isoformat(): the wall-clock reading followed by the offset.
isoformat(dt) == <<dt.instant + dt.offset, dt.offset>>

\* MetricPoint; dimensions holds statistic_type, source tells which path
\* extracted the point.
MetricPoint(metric_id, timestamp, statistic_type, source) ==
    [metric_id |-> metric_id, timestamp |-> timestamp,
     dimensions |-> statistic_type, source |-> source]

LabelPoints ==
    {MetricPoint(MetricIds[m], t, st, "label_values") :
        m \in 1..Len(MetricIds), t \in Timestamps,
        st \in {"average", "confidence"}}
DatasetPoints ==
    {MetricPoint(MetricIds[m], t, "none", "dataset") :
        m \in 1..Len(MetricIds), t \in Timestamps}

\* key = (point.metric_id, point.timestamp.isoformat())
key(point) == <<point.metric_id, isoformat(point.timestamp)>>

\* merged[key] = point on a dict kept as its items in insertion order: a key
\* already present keeps its place and takes the new value.
\* Faulty variant: a key already present keeps its old value.
dict_set_keep_first(merged, k, point) ==
    IF \E i \in 1..Len(merged) : merged[i][1] = k
    THEN merged
    ELSE Append(merged, <<k, point>>)

dict_set(merged, k, point) ==
    IF \E i \in 1..Len(merged) : merged[i][1] = k
    THEN [i \in 1..Len(merged) |->
             IF merged[i][1] = k THEN <<k, point>> ELSE merged[i]]
    ELSE Append(merged, <<k, point>>)

\* for point in points: merged[key(point)] = point
RECURSIVE add_points(_, _)
add_points(merged, points) ==
    IF points = <<>> THEN merged
    ELSE add_points(dict_set(merged, key(Head(points)), Head(points)),
                    Tail(points))

\* merged.values()
dict_values(merged) == [i \in 1..Len(merged) |-> merged[i][2]]

metric_rank(metric_id) ==
    CHOOSE m \in 1..Len(MetricIds) : MetricIds[m] = metric_id

\* (p.timestamp, p.metric_id) < (q.timestamp, q.metric_id): aware datetimes
\* compare by the instant they denote.
sort_key_less(p, q) ==
    \/ p.timestamp.instant < q.timestamp.instant
    \/ /\ p.timestamp.instant = q.timestamp.instant
       /\ metric_rank(p.metric_id) < metric_rank(q.metric_id)

\* Faulty variant: the dict's values are returned as they come.
sorted_not(points) == points

\* sorted(points, key=...): stable, so a point goes after those not greater.
RECURSIVE sorted(_)
sorted(points) ==
    IF points = <<>> THEN <<>>
    ELSE LET rest == sorted(SubSeq(points, 1, Len(points) - 1))
             p == points[Len(points)]
             n == Cardinality({i \in 1..Len(rest) : ~sort_key_less(p, rest[i])})
         IN  SubSeq(rest, 1, n) \o <<p>> \o SubSeq(rest, n + 1, Len(rest))

merge_metric_points(label_points, dataset_points, strategy) ==
    IF strategy # COMPREHENSIVE
    THEN IF strategy = DATASETS_ONLY THEN dataset_points
         ELSE IF strategy = LABELS_ONLY THEN label_points
         ELSE IF label_points # <<>> THEN label_points ELSE dataset_points
    ELSE sorted(dict_values(add_points(add_points(<<>>, dataset_points),
                                       label_points)))

NoMerge == [strategy |-> "none", result |-> <<>>]

\* The label path extracted one more point.
AddLabelPoint(p) ==
    /\ Len(label_in) + Len(dataset_in) < MaxPoints
    /\ label_in' = Append(label_in, p)
    /\ merge_out' = NoMerge
    /\ lastOp' = "add_label_point"
    /\ UNCHANGED <<now, dataset_in, restOfMerge>>

\* The dataset path extracted one more point.
AddDatasetPoint(p) ==
    /\ Len(label_in) + Len(dataset_in) < MaxPoints
    /\ dataset_in' = Append(dataset_in, p)
    /\ merge_out' = NoMerge
    /\ lastOp' = "add_dataset_point"
    /\ UNCHANGED <<now, label_in, restOfMerge>>

\* points = _merge_metric_points(label_points, dataset_points, strategy)
Merge(strategy) ==
    /\ merge_out' = [strategy |-> strategy,
                  result |-> merge_metric_points(label_in, dataset_in,
                                                 strategy)]
    /\ lastOp' = "merge"
    /\ UNCHANGED <<now, label_in, dataset_in, restOfMerge>>

MergeInit ==
    /\ label_in = <<>>
    /\ dataset_in = <<>>
    /\ merge_out = NoMerge

MergeNext ==
    \/ \E p \in LabelPoints : AddLabelPoint(p)
    \/ \E p \in DatasetPoints : AddDatasetPoint(p)
    \/ \E strategy \in MergeStrategies : Merge(strategy)

\* ------------------------------------------------------------------------
\* QueryOrchestrator (src/llm/orchestrator.py)
\* ------------------------------------------------------------------------
MaxIterations == 2   \* largest configured max_iterations explored

\* The execute_query calls followed on the one orchestrator, and the query
\* texts they are given.
QueryCalls == {1, 2}
QueryTexts == {1, 2}

ToolNames == {"get_key_metrics", "resources/read"}

\* The two ways a response can write a tool call: a line that starts
\* with TOOL_CALL: and gives name and arguments, or a fenced json block
\* that gives tool and parameters.
TOOL_CALL == "TOOL_CALL:"
JSON_BLOCK == "json block"
Formats == {TOOL_CALL, JSON_BLOCK}

\* The format the responses explored use for each tool.
format_of(name) == IF name = "get_key_metrics" THEN TOOL_CALL ELSE JSON_BLOCK

\* The texts the LLM answers with: the tool calls written in them, in the
\* order of the text; the empty list is a text without tool calls. The
\* responses explored call each tool at most once.
ResponseTexts ==
    {text \in UNION {[1..n -> [format : Formats, name : ToolNames]] :
                        n \in 0..Cardinality(ToolNames)} :
        /\ \A i \in 1..Len(text) : text[i].format = format_of(text[i].name)
        /\ \A i, j \in 1..Len(text) : i # j => text[i].name # text[j].name}

IsToolCallLine(e) == e.format = TOOL_CALL
IsJsonBlock(e) == e.format = JSON_BLOCK
name_of(text) == [i \in 1..Len(text) |-> text[i].name]

\* _parse_tool_calls: first every TOOL_CALL: line of the text, then every
\* json block of it.
parse_tool_calls(text) ==
    name_of(SelectSeq(text, IsToolCallLine) \o SelectSeq(text, IsJsonBlock))

\* response.usage: None, or a dict whose total_tokens is 1.
Usages == {None, 1}

LlmMessage(role, content) == [role |-> role, content |-> content]

\* Message contents: the system prompt, create_user_prompt(query), the
\* assistant's text (its tool calls) and _format_tool_results(results).
Content(kind, n, calls, results) ==
    [kind |-> kind, n |-> n, calls |-> calls, results |-> results]
system_prompt == Content("system_prompt", 0, <<>>, <<>>)
create_user_prompt(query) == Content("user_prompt", query, <<>>, <<>>)
response_content(text) == Content("response", 0, text, <<>>)
format_tool_results(results) == Content("tool_results", 0, <<>>, results)

ToolResult(tool, success) == [tool |-> tool, success |-> success]

\* final_answer: None, the assistant's text, the summary of the tool errors,
\* or the message about the iteration cap (it quotes max_iterations).
Answer(kind, n, content) == [kind |-> kind, n |-> n, content |-> content]
NoAnswer == Answer("None", 0, system_prompt)
errors_answer(results) ==
    Answer("errors", Len(results), format_tool_results(results))
max_iterations_answer(m) == Answer("max_iterations", m, system_prompt)

OrchestrationResult(answer, tool_calls, llm_calls, total_tokens) ==
    [answer |-> answer, tool_calls |-> tool_calls, llm_calls |-> llm_calls,
     total_tokens |-> total_tokens]
NoOrchestration == OrchestrationResult(NoAnswer, <<>>, 0, 0)

\* Local variables of one execute_query call; query is its argument, and
\* live says that the list its pending LLM call was handed is still
\* self.conversation_history.
QueryLocals(pc, query) ==
    [pc |-> pc, query |-> query, live |-> FALSE, iterations |-> 0,
     llm_calls |-> 0,
     total_tokens |-> 0, final_answer |-> NoAnswer,
     tool_call_requests |-> <<>>, results |-> <<>>,
     tool_calls_trace |-> <<>>]

\* The loop condition, off by one.
loop_continues_past_cap(o, m) ==
    o.iterations <= m /\ o.final_answer = NoAnswer

\* while iterations < self.max_iterations and final_answer is None
loop_continues(o, m) ==
    o.iterations < m /\ o.final_answer = NoAnswer

\* The code after the loop, up to the return (where a break lands).
after_loop(o, m) ==
    [o EXCEPT !.pc = "returned",
              !.final_answer =
                  IF @ = NoAnswer THEN max_iterations_answer(m) ELSE @]

\* The top of the loop: either one more iteration, up to the await of
\* llm_client.complete, or the code after the loop.
loop_head(o, m) ==
    IF loop_continues(o, m)
    THEN [o EXCEPT !.pc = "llm", !.live = TRUE, !.iterations = @ + 1,
                   !.llm_calls = @ + 1]
    ELSE after_loop(o, m)

\* What execute_query returns once the locals say it returned.
returned(o, old) ==
    IF o.pc = "returned"
    THEN OrchestrationResult(o.final_answer, o.tool_calls_trace,
                             o.llm_calls, o.total_tokens)
    ELSE old

all_failed(results) ==
    /\ results # <<>>
    /\ \A i \in 1..Len(results) : ~results[i].success

\* What the LLM calls were given once call c has appended to the history:
\* the pending call of another execute_query holds the same list object,
\* so the message shows in what it was given; `own` is the record of c.
seen_after(c, own, history) ==
    [d \in QueryCalls |->
        IF d = c THEN own
        ELSE IF ox[d].pc = "llm" /\ ox[d].live
        THEN [llm_seen[d] EXCEPT ![Len(llm_seen[d])] = history]
        ELSE llm_seen[d]]

\* Call c is in flight: it awaits the LLM or a tool. Nothing in
\* execute_query keeps a second call out meanwhile.
QueryRunning(c) == ox[c].pc \in {"llm", "tool"}

\* create_orchestrator at startup, with the configured LLM_MAX_ITERATIONS.
NewOrchestrator(m) ==
    /\ lastOp = "init"
    /\ max_iterations' = m
    /\ conversation_history' = <<LlmMessage("system", system_prompt)>>
    /\ lastOp' = "new_orchestrator"
    /\ UNCHANGED <<now, ox, llm_seen, oresult, restOfOrch>>

\* QueryOrchestrator.reset(): the history is a new list that holds the
\* system prompt. Calls in flight go on and append to the new list; a
\* pending LLM call keeps the list it was given.
OrchestratorReset ==
    /\ Len(conversation_history) > 1
    /\ conversation_history' = <<LlmMessage("system", system_prompt)>>
    /\ ox' = [c \in QueryCalls |-> [ox[c] EXCEPT !.live = FALSE]]
    /\ lastOp' = "orchestrator_reset"
    /\ UNCHANGED <<now, max_iterations, llm_seen, oresult, restOfOrch>>

\* Call c of execute_query(query) is made, whatever the other calls are
\* doing: the user message is appended and the first iteration runs up to
\* its LLM call, which is handed self.conversation_history.
ExecuteQuery(c, query) ==
    /\ ox[c].pc = "idle"
    /\ \A d \in QueryCalls : d < c => ox[d].pc # "idle"
    /\ LET history == Append(conversation_history,
                             LlmMessage("user", create_user_prompt(query)))
           o == loop_head(QueryLocals("start", query), max_iterations)
       IN /\ conversation_history' = history
          /\ ox' = [ox EXCEPT ![c] = o]
          /\ llm_seen' = seen_after(c, IF o.pc = "llm" THEN <<history>>
                                        ELSE <<>>, history)
          /\ oresult' = [oresult EXCEPT ![c] = returned(o, NoOrchestration)]
    /\ lastOp' = "execute_query"
    /\ UNCHANGED <<now, max_iterations, restOfOrch>>

\* The LLM call of c returns a response: its tokens are counted, its text
\* is appended and parsed; without tool calls it is the final answer, with
\* tool calls the first of them is started.
LlmResponds(c, text, usage) ==
    /\ ox[c].pc = "llm"
    /\ LET tokens == IF usage = None THEN 0 ELSE usage
           calls == parse_tool_calls(text)
           history == Append(conversation_history,
                             LlmMessage("assistant", response_content(text)))
           counted == [ox[c] EXCEPT !.total_tokens = @ + tokens,
                                    !.tool_call_requests = calls]
           o == IF calls = <<>>
                THEN after_loop([counted EXCEPT
                                   !.final_answer =
                                       Answer("content", ox[c].iterations,
                                              response_content(text))],
                                max_iterations)
                ELSE [counted EXCEPT !.pc = "tool", !.results = <<>>]
       IN /\ conversation_history' = history
          /\ ox' = [ox EXCEPT ![c] = o]
          /\ llm_seen' = seen_after(c, llm_seen[c], history)
          /\ oresult' = [oresult EXCEPT ![c] = returned(o, @)]
    /\ lastOp' = "llm_responds"
    /\ UNCHANGED <<now, max_iterations, restOfOrch>>

\* The LLM call of c raises: execute_query logs and re-raises.
LlmRaises(c) ==
    /\ ox[c].pc = "llm"
    /\ ox' = [ox EXCEPT ![c].pc = "raised"]
    /\ lastOp' = "llm_raises"
    /\ UNCHANGED <<now, max_iterations, conversation_history, llm_seen,
                   oresult, restOfOrch>>

\* The tool call c awaits returns or raises: it is recorded and the next
\* one is started; after the last one the results message is appended, an
\* all-failed turn sets the final answer, and the loop goes round.
ExecuteTool(c, success) ==
    /\ ox[c].pc = "tool"
    /\ LET tool == ox[c].tool_call_requests[Len(ox[c].results) + 1]
           results == Append(ox[c].results, ToolResult(tool, success))
           recorded ==
               [ox[c] EXCEPT !.results = results,
                             !.tool_calls_trace =
                                 Append(@, ToolResult(tool, success))]
           last == Len(results) = Len(ox[c].tool_call_requests)
           history == Append(conversation_history,
                             LlmMessage("user", format_tool_results(results)))
           o == IF ~last THEN recorded
                ELSE IF all_failed(results)
                THEN after_loop([recorded EXCEPT
                                   !.final_answer = errors_answer(results)],
                                max_iterations)
                ELSE loop_head(recorded, max_iterations)
       IN /\ conversation_history' =
                 IF last THEN history ELSE conversation_history
          /\ ox' = [ox EXCEPT ![c] = o]
          /\ llm_seen' =
                 IF last
                 THEN seen_after(c, IF o.pc = "llm"
                                    THEN Append(llm_seen[c], history)
                                    ELSE llm_seen[c], history)
                 ELSE llm_seen
          /\ oresult' = [oresult EXCEPT ![c] = returned(o, @)]
    /\ lastOp' = "execute_tool"
    /\ UNCHANGED <<now, max_iterations, restOfOrch>>

OrchInit ==
    /\ max_iterations = 1
    /\ conversation_history = <<LlmMessage("system", system_prompt)>>
    /\ ox = [c \in QueryCalls |-> QueryLocals("idle", 0)]
    /\ llm_seen = [c \in QueryCalls |-> <<>>]
    /\ oresult = [c \in QueryCalls |-> NoOrchestration]

LlmCompletes(c) ==
    \/ \E text \in ResponseTexts, usage \in Usages : LlmResponds(c, text, usage)
    \/ LlmRaises(c)

ToolCompletes(c) == \E success \in BOOLEAN : ExecuteTool(c, success)

\* One call at a time, on an orchestrator of any configured cap.
OrchNext ==
    \/ \E m \in 1..MaxIterations : NewOrchestrator(m)
    \/ OrchestratorReset
    \/ \E query \in QueryTexts : ExecuteQuery(1, query)
    \/ LlmCompletes(1)
    \/ ToolCompletes(1)

\* Calls that overlap or follow each other, on the orchestrator as
\* constructed.
OverlapNext ==
    \/ OrchestratorReset
    \/ \E c \in QueryCalls, query \in QueryTexts : ExecuteQuery(c, query)
    \/ \E c \in QueryCalls : LlmCompletes(c)
    \/ \E c \in QueryCalls : ToolCompletes(c)

\* ------------------------------------------------------------------------
\* normalize_get_key_metrics_params (src/server/normalize.py)
\* ------------------------------------------------------------------------
MaxKeys == 3         \* keys in a parameter map given to the normalizer

\* Python values: a str, an int, a list of values, a dict, or None. The
\* text of a str is s, except that "digits" stands for the decimal text of
\* n, "days" for the text "<n>d", "DAYS" for "<n>D", "days ago" for
\* "<n> days ago" in any case of letters, and "timestamp" for the strftime
\* text of instant n.
EmptyDict == [k \in {} |-> 0]
Val(t, s, n, l, d) == [t |-> t, s |-> s, n |-> n, l |-> l, d |-> d]
PyStr(s) == Val("str", s, 0, <<>>, EmptyDict)
Digits(n) == Val("str", "digits", n, <<>>, EmptyDict)
RelativeDays(n) == Val("str", "days", n, <<>>, EmptyDict)
UpperDays(n) == Val("str", "DAYS", n, <<>>, EmptyDict)
DaysAgo(n) == Val("str", "days ago", n, <<>>, EmptyDict)
Timestamp(n) == Val("str", "timestamp", n, <<>>, EmptyDict)
PyInt(n) == Val("int", "", n, <<>>, EmptyDict)
PyList(l) == Val("list", "", 0, l, EmptyDict)
PyDict(d) == Val("dict", "", 0, <<>>, d)
PyNone == Val("none", "", 0, <<>>, EmptyDict)

is_str(v) == v.t = "str"
truthy(v) ==
    CASE v.t = "str" -> v.s # ""
      [] v.t = "int" -> v.n # 0
      [] v.t = "list" -> v.l # <<>>
      [] v.t = "dict" -> DOMAIN v.d # {}
      [] OTHER -> FALSE

\* str.lower() on the texts explored.
lower(s) ==
    CASE s = "RHEL" -> "rhel"
      [] s = "NOW" -> "now"
      [] s = "Nightly" -> "nightly"
      [] s = "Ad-Hoc" -> "ad-hoc"
      [] OTHER -> s

\* dict operations
has(params, k) == k \in DOMAIN params
dict_put(params, k, v) ==
    [x \in DOMAIN params \cup {k} |-> IF x = k THEN v ELSE params[x]]
dict_pop(params, k) == [x \in DOMAIN params \ {k} |-> params[x]]
dict_get(params, k, default) == IF has(params, k) THEN params[k] ELSE default

\* raw.get("params", raw) is no dict: params.get raises AttributeError.
unwrap_raises(raw) == has(raw, "params") /\ raw["params"].t # "dict"

\* raw.get("params", raw), then the unwrapping of a lone "args"
unwrap(raw) ==
    LET params == IF has(raw, "params") THEN raw["params"].d ELSE raw
    IN IF /\ has(params, "args")
          /\ params["args"].t = "dict"
          /\ DOMAIN params \cap {"dataset_types", "data", "source_id"} = {}
       THEN params["args"].d
       ELSE params

\* if alt in params and canonical not in params: move it
synonym(params, alt, canonical) ==
    IF has(params, alt) /\ ~has(params, canonical)
    THEN dict_put(dict_pop(params, alt), canonical, params[alt])
    ELSE params

synonyms(params) ==
    LET p1 == IF has(params, "dataset_type") /\ ~has(params, "dataset_types")
              THEN dict_put(dict_pop(params, "dataset_type"), "dataset_types",
                            PyList(<<params["dataset_type"]>>))
              ELSE params
        p2 == synonym(p1, "source", "source_id")
        p3 == synonym(synonym(p2, "testId", "test_id"), "test", "test_id")
        p4 == synonym(synonym(p3, "runId", "run_id"), "run", "run_id")
        p5 == synonym(p4, "schema", "schema_uri")
        p6 == synonym(synonym(synonym(p5, "from_time", "from"),
                              "from_timestamp", "from"), "fromTimestamp", "from")
    IN synonym(synonym(synonym(p6, "to_time", "to"),
                       "to_timestamp", "to"), "toTimestamp", "to")

\* str(int) for test_id and run_id, int(limit) where it parses
int_to_str(params, k) ==
    IF has(params, k) /\ params[k].t = "int"
    THEN dict_put(params, k, Digits(params[k].n)) ELSE params

coerce(params) ==
    LET p1 == int_to_str(int_to_str(params, "test_id"), "run_id")
    IN IF has(p1, "limit") /\ p1["limit"].t = "str" /\ p1["limit"].s = "digits"
       THEN dict_put(p1, "limit", PyInt(p1["limit"].n))
       ELSE p1

\* _parse_relative_date at time t
parse_relative_date(value, t) ==
    IF ~is_str(value) THEN value
    ELSE IF lower(value.s) = "now" THEN Timestamp(t)
    ELSE IF value.s = "days ago" THEN Timestamp(t - value.n)
    ELSE IF value.s = "days" THEN Timestamp(t - value.n)
    ELSE value

relative_dates(params, t) ==
    LET p1 == IF has(params, "from")
              THEN dict_put(params, "from", parse_relative_date(params["from"], t))
              ELSE params
    IN IF has(p1, "to")
       THEN dict_put(p1, "to", parse_relative_date(p1["to"], t))
       ELSE p1

\* alias_map.get(x, x)
alias_map(x) ==
    IF x.t = "str" /\ x.s \in {"boot-time", "boot_time", "boot"}
    THEN PyStr("boot-time-verbose") ELSE x

\* alias_map.get(x, x) on an element that cannot be hashed raises TypeError.
aliases_raise(params) ==
    LET dtypes == dict_get(params, "dataset_types", PyNone)
    IN /\ dtypes.t = "list"
       /\ \E i \in 1..Len(dtypes.l) : dtypes.l[i].t \in {"list", "dict"}

dataset_type_aliases(params) ==
    LET dtypes == dict_get(params, "dataset_types", PyNone)
    IN CASE dtypes.t = "list" ->
              dict_put(params, "dataset_types",
                       PyList([i \in 1..Len(dtypes.l) |-> alias_map(dtypes.l[i])]))
         [] dtypes.t = "str" ->
              dict_put(params, "dataset_types", PyList(<<alias_map(dtypes)>>))
         [] OTHER -> params

known_os_identifiers ==
    {"rhel", "rhel-9", "rhel-8", "rhel9", "rhel8", "autosd", "autosd-9",
     "fedora", "centos", "centos-stream", "fedora-coreos", "fcos"}
os_alias_map(os) == os
known_run_types == {"nightly", "ci", "release", "manual", "ad-hoc", "adhoc"}

\* if not params.get("dataset_types"): params["dataset_types"] = [...]
default_dataset_types(params) ==
    IF truthy(dict_get(params, "dataset_types", PyNone)) THEN params
    ELSE dict_put(params, "dataset_types",
                  PyList(<<PyStr("boot-time-verbose")>>))

\* params.get(k, "").lower(): the text, or the AttributeError of a value
\* that is not a str
NotStr == "AttributeError"
get_lower(params, k) ==
    LET v == dict_get(params, k, PyStr(""))
    IN IF is_str(v) THEN lower(v.s) ELSE NotStr

explicit_os_id(params) ==
    LET os_id_val == get_lower(params, "os_id")
    IN IF os_id_val # ""
       THEN default_dataset_types(
                dict_put(params, "_detected_os_filter",
                         PyStr(os_alias_map(os_id_val))))
       ELSE params

os_in_test_id(params, test_id_val) ==
    IF test_id_val \in known_os_identifiers
    THEN dict_put(dict_pop(default_dataset_types(params), "test_id"),
                  "_detected_os_filter", PyStr(os_alias_map(test_id_val)))
    ELSE params

\* str(v) of a value, lowered
str_lower(v) ==
    CASE v.t = "str" -> lower(v.s)
      [] v.t = "int" -> "digits"
      [] v.t = "none" -> "none"
      [] v.t = "dict" -> "dict"
      [] OTHER -> "list"

explicit_run_type(params) ==
    IF has(params, "run_type") \/ has(params, "runType")
    THEN LET first == dict_get(params, "run_type", PyNone)
             run_type_val == IF truthy(first) THEN first
                             ELSE dict_get(params, "runType", PyNone)
             run_type_lower ==
                 IF str_lower(run_type_val) \in {"ad-hoc", "adhoc"}
                 THEN "manual" ELSE str_lower(run_type_val)
         IN IF truthy(run_type_val)
            THEN dict_pop(dict_pop(dict_put(params, "_detected_run_type",
                                            PyStr(run_type_lower)),
                                   "run_type"), "runType")
            ELSE params
    ELSE params

run_type_detects(params, test_id_val) ==
    ~has(params, "_detected_run_type") /\ test_id_val \in known_run_types

run_type_in_test_id(params, test_id_val) ==
    IF run_type_detects(params, test_id_val)
    THEN default_dataset_types(
             dict_pop(dict_put(params, "_detected_run_type", PyStr(test_id_val)),
                      "test_id"))
    ELSE params

\* The known run types that occur in a text, for the texts explored.
run_types_in(val) ==
    CASE val \in known_run_types -> {val}
      [] val = "nightly-ci" -> {"nightly", "ci"}
      [] val = "urn:ci:1" -> {"ci"}
      [] OTHER -> {}

\* The orders in which the set known_run_types may be iterated.
SetOrders ==
    {<<"nightly", "ci", "release", "manual", "ad-hoc", "adhoc">>,
     <<"adhoc", "ad-hoc", "manual", "release", "ci", "nightly">>}

\* The first run type of the iteration that occurs in the text.
first_in(order, val) ==
    order[CHOOSE i \in 1..Len(order) :
              /\ order[i] \in run_types_in(val)
              /\ \A j \in 1..(i - 1) : order[j] \notin run_types_in(val)]

\* for run_type in known_run_types: if run_type in val: ... break
keyword_in(params, k, order) ==
    LET val == str_lower(dict_get(params, k, PyStr("")))
    IN IF run_types_in(val) = {} THEN params
       ELSE LET hit == dict_put(params, "_detected_run_type",
                                PyStr(first_in(order, val)))
            IN IF k = "test_id"
               THEN default_dataset_types(dict_pop(hit, "test_id"))
               ELSE hit

run_type_keywords(params, order) ==
    IF has(params, "_detected_run_type") THEN params
    ELSE keyword_in(keyword_in(params, "test_id", order), "schema_uri", order)

defaults_and_cleanup(params) ==
    LET p1 == IF has(params, "limit") THEN params
              ELSE dict_put(params, "limit", PyInt(100))
    IN dict_pop(dict_pop(p1, "output_format"), "table_format")

Normalized(raised, params) == [raised |-> raised, params |-> params]

normalize_get_key_metrics_params(raw, order, t) ==
    IF unwrap_raises(raw) THEN Normalized("AttributeError", EmptyDict)
    ELSE
    LET dated == relative_dates(coerce(synonyms(unwrap(raw))), t)
        aliased == dataset_type_aliases(dated)
    IN IF aliases_raise(dated) THEN Normalized("TypeError", EmptyDict)
       ELSE IF get_lower(aliased, "os_id") = NotStr
          \/ get_lower(aliased, "test_id") = NotStr
       THEN Normalized("AttributeError", EmptyDict)
       ELSE LET with_os == explicit_os_id(aliased)
                test_id_val == get_lower(with_os, "test_id")
                p1 == os_in_test_id(with_os, test_id_val)
                p2 == explicit_run_type(p1)
                p3 == run_type_in_test_id(p2, test_id_val)
                p4 == run_type_keywords(p3, order)
            IN Normalized("no", defaults_and_cleanup(p4))

\* The values explored for each key of a request.
ValuesOf(k) ==
    CASE k = "test_id" ->
             {PyStr("rhel"), PyStr("RHEL"), PyStr("nightly"), PyStr("nightly-ci"),
              PyStr("boot-time-verbose"), PyInt(294), PyNone}
      [] k = "testId" -> {Digits(294)}
      [] k = "os_id" -> {PyStr("fedora"), PyStr("")}
      [] k = "run_type" -> {PyStr("ci"), PyStr("Ad-Hoc"), PyStr("")}
      [] k = "dataset_types" ->
             {PyList(<<>>), PyList(<<PyStr("boot-time")>>), PyStr("boot"),
              PyList(<<PyStr("other")>>)}
      [] k = "dataset_type" ->
             {PyStr("boot_time"), PyList(<<PyStr("boot")>>), Digits(294),
              PyInt(5), PyNone}
      [] k = "schema_uri" -> {PyStr("urn:ci:1"), PyStr("urn:x")}
      [] k = "from" ->
             {RelativeDays(1), UpperDays(1), DaysAgo(2), PyStr("now"),
              PyStr("NOW")}
      [] k = "from_time" -> {Timestamp(0)}
      [] k = "limit" -> {PyInt(10), Digits(10), PyStr("ten")}
      [] OTHER -> {PyStr("table")}

ParamKeys ==
    {"test_id", "testId", "os_id", "run_type", "dataset_types", "dataset_type",
     "schema_uri", "from", "from_time", "limit", "output_format"}

\* The parameter maps over a set of keys.
RECURSIVE maps_over(_)
maps_over(keys) ==
    IF keys = {} THEN {EmptyDict}
    ELSE LET k == CHOOSE x \in keys : TRUE
         IN {dict_put(m, k, v) : m \in maps_over(keys \ {k}), v \in ValuesOf(k)}

\* The flat parameter maps of at most n keys.
ParamMaps(n) ==
    UNION {maps_over(keys) :
             keys \in {ks \in SUBSET ParamKeys : Cardinality(ks) <= n}}

wrapped(w, m) == dict_put(EmptyDict, w, PyDict(m))

\* The raw inputs: a flat map, or one nested in "params" or "args", once or
\* twice; a wrapper counts as a key.
\* The values of "params" that are no dict.
NotDicts == {PyNone, PyStr("table"), PyList(<<>>), PyInt(1)}

\* The raw inputs: a flat map, or one nested in "params" or "args", once or
\* twice; a wrapper counts as a key; and a "params" that is no dict, at the
\* top or one level down.
RawInputs ==
    ParamMaps(MaxKeys)
    \cup {wrapped(w, m) : w \in {"params", "args"}, m \in ParamMaps(MaxKeys - 1)}
    \cup {wrapped("params", wrapped(w, m)) :
              w \in {"params", "args"}, m \in ParamMaps(MaxKeys - 2)}
    \cup {dict_put(m, "params", v) :
              m \in ParamMaps(MaxKeys - 2), v \in NotDicts}
    \cup {wrapped("params", dict_put(m, "params", v)) :
              m \in ParamMaps(MaxKeys - 2), v \in NotDicts}

NotNormalized == Normalized("none", EmptyDict)
NoNormalization ==
    [pc |-> "idle", raw |-> EmptyDict, order |-> <<>>,
     once |-> NotNormalized, twice |-> NotNormalized]

\* A handler normalizes the parameters it was given.
Normalize(raw, order) ==
    /\ lastOp = "init"
    /\ norm' = [NoNormalization EXCEPT
                   !.pc = "once", !.raw = raw, !.order = order,
                   !.once = normalize_get_key_metrics_params(raw, order, now)]
    /\ lastOp' = "normalize"
    /\ UNCHANGED <<now, restOfNorm>>

\* The result of a normalization is normalized again.
NormalizeAgain ==
    /\ norm.pc = "once"
    /\ norm.once.raised = "no"
    /\ norm' = [norm EXCEPT
                   !.pc = "twice",
                   !.twice = normalize_get_key_metrics_params(
                                 norm.once.params, norm.order, now)]
    /\ lastOp' = "normalize_again"
    /\ UNCHANGED <<now, restOfNorm>>

NormInit == norm = NoNormalization

NormNext ==
    \/ \E raw \in RawInputs, order \in SetOrders : Normalize(raw, order)
    \/ NormalizeAgain

\* ------------------------------------------------------------------------
\* Plugin registry and the HTTP app's life cycle
\* (src/domain/plugins/__init__.py, src/server/http.py create_app)
\* ------------------------------------------------------------------------
\* The plugins the registry holds after import and after reset_plugins.
DefaultPlugins == {"boot-time-verbose", "elasticsearch-logs"}

\* The dataset types a request may name.
DatasetTypes == DefaultPlugins \cup {"does-not-exist"}

\* enabled_plugins of the configuration: a flag for some of the plugins;
\* the empty mapping when there is no configuration.
EnabledPlugins == UNION {[ids -> BOOLEAN] : ids \in SUBSET DefaultPlugins}

\* reset_plugins: clear the registry and register the example plugins.
reset_plugins(reg) == DefaultPlugins

\* apply_enabled_plugins: with a non-empty mapping only the plugins whose
\* flag is True are kept.
apply_enabled_plugins(reg, enabled) ==
    IF DOMAIN enabled = {} THEN reg
    ELSE LET keep_ids == {pid \in DOMAIN enabled : enabled[pid]}
         IN reg \cap keep_ids

NoApp == [pc |-> "none", enabled_plugins |-> [pid \in {} |-> TRUE]]
NoRawRequest ==
    [dataset_type |-> "none", status_code |-> 0, error_type |-> "none",
     started |-> FALSE]

\* create_app: builds the app and applies enabled_plugins to the registry.
CreateApp(enabled) ==
    /\ happ.pc # "running"
    /\ registry' = apply_enabled_plugins(registry, enabled)
    /\ happ' = [pc |-> "created", enabled_plugins |-> enabled]
    /\ hreq' = NoRawRequest
    /\ lastOp' = "create_app"
    /\ UNCHANGED <<now, restOfPlugins>>

\* The server starts the app: lifespan runs up to its yield and resets the
\* plugin registry on the way.
LifespanStartup ==
    /\ happ.pc = "created"
    /\ registry' = reset_plugins(registry)
    /\ happ' = [happ EXCEPT !.pc = "running"]
    /\ hreq' = NoRawRequest
    /\ lastOp' = "startup"
    /\ UNCHANGED <<now, restOfPlugins>>

\* POST /tools/get_key_metrics_raw naming one dataset type: the plugin is
\* looked up in the registry; a KeyError is answered with 400
\* unknown_dataset_type. A test client that does not enter the app's
\* lifespan reaches the handler of an app that was only created.
GetKeyMetricsRaw(dataset_type) ==
    /\ happ.pc \in {"created", "running"}
    /\ hreq' = IF dataset_type \in registry
               THEN [dataset_type |-> dataset_type, status_code |-> 200,
                     error_type |-> "none", started |-> happ.pc = "running"]
               ELSE [dataset_type |-> dataset_type, status_code |-> 400,
                     error_type |-> "unknown_dataset_type",
                     started |-> happ.pc = "running"]
    /\ lastOp' = "get_key_metrics_raw"
    /\ UNCHANGED <<now, registry, happ, restOfPlugins>>

\* The server stops the app: lifespan runs on from its yield.
LifespanShutdown ==
    /\ happ.pc = "running"
    /\ happ' = [happ EXCEPT !.pc = "stopped"]
    /\ hreq' = NoRawRequest
    /\ lastOp' = "shutdown"
    /\ UNCHANGED <<now, registry, restOfPlugins>>

PluginsInit ==
    /\ registry = DefaultPlugins
    /\ happ = NoApp
    /\ hreq = NoRawRequest

PluginsNext ==
    \/ \E enabled \in EnabledPlugins : CreateApp(enabled)
    \/ LifespanStartup
    \/ \E dataset_type \in DatasetTypes : GetKeyMetricsRaw(dataset_type)
    \/ LifespanShutdown

\* ------------------------------------------------------------------------
\* MCP stdio bridge (src/src/adapters/mcp_bridge.py) under the dataset
\* fan-out (src/src/utils/partial_results.py: fetch_datasets_with_fallback)
\* ------------------------------------------------------------------------
MaxTimeout == 2      \* MCPBridgeAdapter._timeout ranges over 1..MaxTimeout
MaxFanOut == 2       \* dataset ids handed to one fetch_datasets_with_fallback

NoError == OtherError("none")
RuntimeError == OtherError("RuntimeError")
AsyncioTimeoutError == OtherError("asyncio.TimeoutError")

\* What a stdio session may raise by itself.
SessionExcs == Excs \cup {OtherError("KeyError"), RuntimeError}

\* _call_with_session: it returns after `seconds`, or it raises `exc`.
Session(seconds, exc) == [seconds |-> seconds, exc |-> exc]
StdioSessions ==
    {Session(d, NoError) : d \in 0..(MaxTimeout + 1)}
    \cup {Session(0, e) : e \in SessionExcs}

\* asyncio.wait_for(_call_with_session(), timeout): the exception that
\* leaves it, NoError when it returns the result.  A session that needs
\* exactly `timeout` seconds races the timer: `tie` says whether it won.
wait_for(session, timeout, tie) ==
    IF session.exc # NoError THEN session.exc
    ELSE IF session.seconds < timeout \/ (session.seconds = timeout /\ tie)
         THEN NoError
         ELSE AsyncioTimeoutError

\* MCPBridgeAdapter._call: `except asyncio.TimeoutError: raise RuntimeError`.
_call(session, timeout, tie) ==
    LET e == wait_for(session, timeout, tie)
    IN  IF e = AsyncioTimeoutError THEN RuntimeError ELSE e

\* _classify_error: the isinstance chain, in its order.
_classify_error(exc) ==
    IF exc.type = "HTTPStatusError"
    THEN IF exc.status >= 500 THEN "server_error"
         ELSE IF exc.status = 429 THEN "rate_limit"
         ELSE IF exc.status \in {401, 403} THEN "auth_error"
         ELSE IF exc.status = 404 THEN "not_found"
         ELSE "http_error"
    ELSE IF exc.type \in {"TimeoutException", "asyncio.TimeoutError"}
         THEN "timeout"
    ELSE IF exc.type = "ConnectError" THEN "connection_error"
    ELSE IF exc.type = "ValueError" THEN "parse_error"
    ELSE IF exc.type = "KeyError" THEN "missing_field"
    ELSE "unknown_error"

_is_retryable(error_type) ==
    error_type \in {"timeout", "connection_error", "server_error", "rate_limit"}

FailureInfo(identifier, exc) ==
    [identifier |-> identifier,
     error_type |-> _classify_error(exc),
     retryable |-> _is_retryable(_classify_error(exc))]

\* The exception each operation of the fan-out ended with.
outcomes(sessions, timeout, ties) ==
    [i \in DOMAIN sessions |-> _call(sessions[i], timeout, i \in ties)]

\* gather_partial's failure records, in the order of the operations.
failure_records(excs) ==
    LET ids == [i \in DOMAIN excs |-> i]
        ko == SelectSeq(ids, LAMBDA i : excs[i] # NoError)
    IN  [k \in DOMAIN ko |-> FailureInfo(ko[k], excs[ko[k]])]

\* MCPBridgeAdapter(command, args, timeout=cfg.timeout_seconds).
NewBridgeAdapter(timeout) ==
    /\ lastOp = "init"
    /\ bridge_timeout' = timeout
    /\ lastOp' = "new_bridge"
    /\ UNCHANGED <<now, fanout, restOfBridge>>

\* fetch_datasets_with_fallback(adapter, dataset_ids) over the bridge:
\* one datasets_get, hence one _call, per dataset id; the calls that
\* return answer with content `first` (the first id) and `rest`.  One
\* fan-out is followed per adapter: a fan-out leaves nothing behind for
\* the next.
FetchDatasetsWithFallback(sessions, ties, first, rest) ==
    /\ lastOp \in {"init", "new_bridge"}
    /\ LET excs == outcomes(sessions, bridge_timeout, ties)
           ids == [i \in DOMAIN sessions |-> i]
           failed == {i \in DOMAIN sessions : excs[i] # NoError}
           responses == SelectSeq(responses_of(ids, first, rest),
                                  LAMBDA r : r.dataset_id \notin failed)
       IN  fanout' = [sessions |-> sessions,
                      raised |-> gather_partial(ids, failed, 50).raised,
                      successes |-> extract_contents(responses),
                      failures |-> failure_records(excs)]
    /\ lastOp' = "fetch_datasets"
    /\ UNCHANGED <<now, bridge_timeout, restOfBridge>>

BridgeInit ==
    /\ bridge_timeout = 1
    /\ fanout = [sessions |-> <<>>, raised |-> "none",
                 successes |-> <<>>, failures |-> <<>>]

BridgeNext ==
    \/ \E timeout \in 1..MaxTimeout : NewBridgeAdapter(timeout)
    \/ \E n \in 1..MaxFanOut :
           \E sessions \in [1..n -> StdioSessions], ties \in SUBSET (1..n),
              c \in ContentChoices :
               FetchDatasetsWithFallback(sessions, ties, c[1], c[2])

\* ------------------------------------------------------------------------
\* POST /api/query (src/src/server/http.py: _register_query.api_query)
\* ------------------------------------------------------------------------
NumRequests == 3     \* requests to /api/query that are followed
MaxPieces == 3       \* pieces a submitted query is made of, at most

\* A query is a sequence of pieces: a run of characters that is one
\* of the texts below, in one letter case ("none": it has no letters).
\* len(query) counts pieces.
Piece(text, case) == [text |-> text, case |-> case]
NUL == Piece("NUL", "none")
SPACE == Piece(" ", "none")
BACKSLASH_X00 == "backslash x 0 0"
Pieces ==
    {NUL, SPACE, Piece("boot time of rhel", "lower")}
    \cup {Piece(BACKSLASH_X00, c) : c \in {"lower", "upper"}}
    \cup {Piece("ignore previous", c) : c \in {"lower", "upper", "mixed"}}
    \cup {Piece(t, c) : t \in {"ignore all", "system:", "</s>", "<|endoftext|>"},
                        c \in {"lower", "upper"}}

RECURSIVE QueriesOf(_)
QueriesOf(n) ==
    IF n = 0 THEN {<<>>}
    ELSE QueriesOf(n - 1)
         \cup {Append(q, p) : q \in {x \in QueriesOf(n - 1) : Len(x) = n - 1},
                              p \in Pieces}
Queries == QueriesOf(MaxPieces)

\* The queries of the requests that are followed side by side.
FewQueries ==
    {<<Piece("boot time of rhel", "lower")>>, <<Piece("ignore all", "lower")>>}

\* settings.QUERY_MAX_LENGTH
max_query_length == 2

\* str.upper() of one piece.
upper(piece) ==
    IF piece.case = "none" THEN piece ELSE [piece EXCEPT !.case = "upper"]

\* str.strip(): leading and trailing whitespace goes.
RECURSIVE lstrip(_)
lstrip(q) == IF q # <<>> /\ Head(q) = SPACE THEN lstrip(Tail(q)) ELSE q
RECURSIVE rstrip(_)
rstrip(q) ==
    IF q # <<>> /\ q[Len(q)] = SPACE THEN rstrip(SubSeq(q, 1, Len(q) - 1))
    ELSE q
strip(q) == rstrip(lstrip(q))

\* The list suspicious_patterns, as written in the source.
suspicious_patterns ==
    <<Piece(BACKSLASH_X00, "lower"),
      NUL,
      Piece("ignore previous", "upper"),
      Piece("ignore all", "upper"),
      Piece("system:", "upper"),
      Piece("</s>", "lower"),
      Piece("<|endoftext|>", "lower")>>

\* any(pattern in query.upper() for pattern in suspicious_patterns)
is_suspicious(query) ==
    LET query_upper == [i \in DOMAIN query |-> upper(query[i])]
    IN  \E k \in DOMAIN suspicious_patterns, i \in DOMAIN query_upper :
            query_upper[i] = suspicious_patterns[k]

\* The rate limiter of the endpoint: settings defaults.
api_limiter_config == RateLimitConfig(TRUE, NoKey)

ApiRequest(pc, client, query, status, detail, checked) ==
    [pc |-> pc, client |-> client, query |-> query,
     status_code |-> status, detail |-> detail, checked |-> checked]
NoApiRequest == ApiRequest("idle", "none", <<>>, 0, "none", FALSE)

\* api_query up to its first await: validation, the rate-limit check, and
\* the call of orchestrator.execute_query(query).  QueryRequest has no
\* admin_key field, so admin_key is None.
ApiQuery(r, client, raw_query) ==
    /\ areq[r].pc = "idle"
    /\ \A s \in 1..(r - 1) : areq[s].pc # "idle"
    /\ LET query == strip(raw_query)
           rejected(detail) ==
               /\ areq' = [areq EXCEPT ![r] =
                      ApiRequest("done", client, raw_query, 400, detail, FALSE)]
               /\ UNCHANGED <<api_clients, admitted>>
           checked == check_rate_limit(api_limiter_config,
                                       api_clients[client], NoKey, now)
       IN  IF query = <<>> THEN rejected("Query cannot be empty")
           ELSE IF Len(query) > max_query_length THEN rejected("Query too long")
           ELSE IF is_suspicious(query)
           THEN rejected("Query contains suspicious patterns")
           ELSE /\ api_clients' = [api_clients EXCEPT ![client] = checked.state]
                /\ IF ~checked.allowed
                   THEN /\ areq' = [areq EXCEPT ![r] =
                               ApiRequest("done", client, raw_query, 429,
                                          "Rate limit exceeded", TRUE)]
                        /\ UNCHANGED admitted
                   ELSE /\ areq' = [areq EXCEPT ![r] =
                               ApiRequest("orchestrating", client, raw_query,
                                          0, "none", TRUE)]
                        /\ admitted' = Append(admitted,
                               [client |-> client, at |-> now])
    /\ lastOp' = "api_query"
    /\ UNCHANGED <<now, restOfApi>>

\* execute_query returned: record_request, get_client_stats, then the
\* 200 response.
OrchestratorReturns(r, total_tokens) ==
    /\ areq[r].pc = "orchestrating"
    /\ api_clients' = [api_clients EXCEPT
           ![areq[r].client] =
               get_client_stats(record_request(@, total_tokens, now), now)]
    /\ areq' = [areq EXCEPT ![r].pc = "done", ![r].status_code = 200]
    /\ lastOp' = "orchestrator_returns"
    /\ UNCHANGED <<now, admitted, restOfApi>>

\* execute_query raised: 429 when the message speaks of a rate limit,
\* 500 otherwise; nothing is recorded.
OrchestratorRaises(r, rate_limited) ==
    /\ areq[r].pc = "orchestrating"
    /\ areq' = [areq EXCEPT
           ![r].pc = "done",
           ![r].status_code = IF rate_limited THEN 429 ELSE 500,
           ![r].detail = IF rate_limited THEN "LLM API rate limit exceeded"
                         ELSE "Query processing failed"]
    /\ lastOp' = "orchestrator_raises"
    /\ UNCHANGED <<now, api_clients, admitted, restOfApi>>

ApiInit ==
    /\ areq = [r \in 1..NumRequests |-> NoApiRequest]
    /\ api_clients = [c \in Clients |-> RateLimitState]
    /\ admitted = <<>>

\* One request, any query.
ValidateNext ==
    \E query \in Queries : lastOp = "init" /\ ApiQuery(1, "c1", query)

\* Several requests side by side.
ApiNext ==
    \/ \E r \in 1..NumRequests, c \in Clients, query \in FewQueries :
           ApiQuery(r, c, query)
    \/ \E r \in 1..NumRequests, n \in {0, 2} : OrchestratorReturns(r, n)
    \/ \E r \in 1..NumRequests, b \in BOOLEAN : OrchestratorRaises(r, b)

\* ------------------------------------------------------------------------
\* Elasticsearch adapter under the dataset pagination loop
\* (src/src/adapters/elasticsearch.py: ElasticsearchAdapter.datasets_search,
\*  src/src/server/http.py: _fetch_source_datasets)
\* ------------------------------------------------------------------------
MaxTotal == 4        \* largest hits.total.value the search tool reports
MaxSearches == 3     \* searches of one pagination loop that are followed

\* DatasetsSearchRequest.page_size values tried (ge=1).
PageSizes == {1, 2}

\* Optional[str] page tokens: None, or the decimal text of a number.
PageToken(is_none, digits) == [is_none |-> is_none, digits |-> digits]
NoPageToken == PageToken(TRUE, 0)
str(n) == PageToken(FALSE, n)
int(token) == token.digits

\* `if req.page_token:`: None and "" are falsy, "0" is not.
token_truthy(token) == ~token.is_none

\* Pagination; total_count is None (-1) when the adapter gives none.
Pagination(has_more, token, total_count) ==
    [has_more |-> has_more, next_page_token |-> token,
     total_count |-> total_count]

\* What the loop was answered: the offset asked for, the hits returned and
\* the pagination of the response.
SearchResponse(from, hits, pagination) ==
    [from |-> from, hits |-> hits, pagination |-> pagination]
NoSearchResponse ==
    SearchResponse(0, 0, Pagination(FALSE, NoPageToken, None))

\* query_body.get("from", 0) after `query_body["from"] = int(req.page_token)`
current_from(page_token) ==
    IF token_truthy(page_token) THEN int(page_token) ELSE 0

\* has_more = next_from < total_val
es_has_more(next_from, total_val) == next_from < total_val

\* datasets_search on the reply of the search tool: `hits` hits and
\* hits.total.value = total_val.
datasets_search(page_token, hits, total_val) ==
    LET from == current_from(page_token)
        next_from == from + hits
        has_more == es_has_more(next_from, total_val)
    IN  SearchResponse(from, hits,
            Pagination(has_more,
                       IF has_more THEN str(next_from) ELSE NoPageToken,
                       total_val))

\* datasets_search without a test_id, or when the search tool raised or
\* its reply could not be read: no datasets, has_more False.
datasets_search_empty(page_token) ==
    SearchResponse(current_from(page_token), 0,
                   Pagination(FALSE, NoPageToken, None))

EsLocals(pc, page_size) ==
    [pc |-> pc, page_size |-> page_size, page_token |-> NoPageToken,
     page_count |-> 0, dataset_ids |-> 0]

\* The loop body after the response: ids collected, then break or go on
\* with the token.
es_loop_step(x, resp) ==
    LET y == [x EXCEPT !.page_count = @ + 1, !.dataset_ids = @ + resp.hits]
    IN  IF ~resp.pagination.has_more THEN [y EXCEPT !.pc = "done"]
        ELSE IF token_truthy(resp.pagination.next_page_token)
        THEN [y EXCEPT !.page_token = resp.pagination.next_page_token]
        ELSE [y EXCEPT !.pc = "done"]

\* _fetch_source_datasets starts its pagination loop (limit = page size).
StartPagination(page_size) ==
    /\ esx.pc \in {"idle", "done"}
    /\ esx' = EsLocals("search", page_size)
    /\ es_resp' = NoSearchResponse
    /\ lastOp' = "start_pagination"
    /\ UNCHANGED <<now, restOfEs>>

\* One datasets_search of the loop, the search tool answering.
EsDatasetsSearch(hits, total_val) ==
    /\ esx.pc = "search"
    /\ esx.page_count < MaxSearches
    /\ hits <= esx.page_size
    /\ LET resp == datasets_search(esx.page_token, hits, total_val)
       IN  /\ es_resp' = resp
           /\ esx' = es_loop_step(esx, resp)
    /\ lastOp' = "es_search"
    /\ UNCHANGED <<now, restOfEs>>

\* One datasets_search of the loop, the search tool raising.
EsDatasetsSearchFails ==
    /\ esx.pc = "search"
    /\ esx.page_count < MaxSearches
    /\ LET resp == datasets_search_empty(esx.page_token)
       IN  /\ es_resp' = resp
           /\ esx' = es_loop_step(esx, resp)
    /\ lastOp' = "es_search_fails"
    /\ UNCHANGED <<now, restOfEs>>

EsInit ==
    /\ esx = EsLocals("idle", 1)
    /\ es_resp = NoSearchResponse

EsNext ==
    \/ \E page_size \in PageSizes : StartPagination(page_size)
    \/ \E hits \in {0} \cup PageSizes, total_val \in 0..MaxTotal :
           EsDatasetsSearch(hits, total_val)
    \/ EsDatasetsSearchFails

\* ------------------------------------------------------------------------
\* Specifications: one per component, the other components at rest
\* ------------------------------------------------------------------------
Init ==
    /\ now = 1
    /\ lastOp = "init"
    /\ BreakerInit
    /\ AdapterInit
    /\ QueueInit
    /\ LimiterInit
    /\ GatherInit
    /\ FetchInit
    /\ MergeInit
    /\ OrchInit
    /\ NormInit
    /\ PluginsInit
    /\ BridgeInit
    /\ ApiInit
    /\ EsInit

SpecBreaker == Init /\ [][Tick \/ BreakerNext]_vars

SpecAdapter == Init /\ [][Tick \/ AdapterNext]_vars

SpecQueue == Init /\ [][QueueNext]_vars

SpecLimiter == Init /\ [][Tick \/ LimiterNext]_vars

SpecGather == Init /\ [][GatherNext]_vars

SpecFetch == Init /\ [][FetchNext]_vars

SpecMerge == Init /\ [][MergeNext]_vars

SpecNorm == Init /\ [][NormNext]_vars

SpecPlugins == Init /\ [][PluginsNext]_vars

SpecBridge == Init /\ [][BridgeNext]_vars

SpecApi == Init /\ [][Tick \/ ApiNext]_vars

SpecValidate == Init /\ [][ValidateNext]_vars

SpecEs == Init /\ [][EsNext]_vars

\* A pending LLM call or tool call completes (with a response or an
\* exception): the event loop resumes execute_query when its await is done.
SpecOrch ==
    /\ Init
    /\ [][OrchNext]_vars
    /\ WF_vars(LlmCompletes(1))
    /\ WF_vars(ToolCompletes(1))

SpecOverlap ==
    /\ Init
    /\ [][OverlapNext]_vars
    /\ \A c \in QueryCalls :
           WF_vars(LlmCompletes(c)) /\ WF_vars(ToolCompletes(c))

\* ------------------------------------------------------------------------
\* Properties
\* ------------------------------------------------------------------------
NoCounted(log) == \A i \in 1..Len(log) : log[i] # "counted"
AllOk(log) == \A i \in 1..Len(log) : log[i] = "ok"
LeavesOpen == cb.state = OPEN /\ cb'.state # OPEN /\ lastOp' # "reset"
Closes == cb.state = HALF_OPEN /\ cb'.state = CLOSED /\ lastOp' = "success"

\* C1: while the breaker is CLOSED, failure_count is the number of counted
\* failures (HTTP status >= 500, HTTP 429, timeouts, connect errors) since
\* the last successful call and is below failure_threshold; a step takes
\* the breaker from CLOSED to OPEN exactly when that number reaches
\* failure_threshold, and it records opened_at then.
C1_OpensAtThreshold ==
    [][cb.state = CLOSED =>
        /\ cb.failure_count = sinceSuccess
        /\ sinceSuccess < failure_threshold
        /\ cb'.state \in {CLOSED, OPEN}
        /\ (cb'.state = OPEN <=> sinceSuccess' = failure_threshold)
        /\ (cb'.state = OPEN => cb'.opened_at = now /\ lastOp' = "failure")]_vars

C1_Witness ==
    /\ cb.state = OPEN
    /\ lastOp = "failure"
    /\ cb.failure_count = failure_threshold
    /\ sinceSuccess = failure_threshold
    /\ cb.opened_at = now

\* C2: a call() that arrives while the breaker is OPEN and fewer than
\* timeout_seconds have elapsed since opened_at raises the circuit-open
\* error at once: the breaker is left as it was and no wrapped function is
\* started.
C2_BlockedWhileOpen ==
    [][(/\ cb.state = OPEN
        /\ now - cb.opened_at < timeout_seconds
        /\ lastOp' \in {"blocked", "half_open", "entered"})
       => (lastOp' = "blocked" /\ cb' = cb /\ cpc' = cpc)]_vars

C2_Witness ==
    /\ lastOp = "blocked"
    /\ cb.state = OPEN
    /\ now - cb.opened_at < timeout_seconds

\* C3: whatever the interleaving of calls and their outcomes, a call() step
\* takes the breaker out of OPEN only to HALF_OPEN and only when at least
\* timeout_seconds have elapsed since opened_at, and opened_at does not
\* change while the breaker stays OPEN.
C3_NoEarlyLeave ==
    [][/\ LeavesOpen =>
            /\ cb'.state = HALF_OPEN
            /\ cb.opened_at # None
            /\ now - cb.opened_at >= timeout_seconds
       /\ (cb.state = OPEN /\ cb'.state = OPEN) => cb'.opened_at = cb.opened_at]_vars

C3_Witness ==
    /\ lastOp = "half_open"
    /\ cb.state = HALF_OPEN
    /\ now - cb.opened_at >= timeout_seconds
    /\ \A c \in Calls : cpc[c] = "running"

\* C4 as stated: whenever the breaker goes from HALF_OPEN to CLOSED, the last
\* success_threshold calls that completed while it was HALF_OPEN were all
\* successes, with no failed call among them.
C4_Original ==
    [][Closes => (Len(hoLog') = success_threshold /\ AllOk(hoLog'))]_vars

\* C4 amended: in HALF_OPEN success_count is the number of successes
\* completed since HALF_OPEN was entered and no counted failure has
\* completed since then; when the breaker goes from HALF_OPEN to CLOSED that
\* number is success_threshold and the last success_threshold completions
\* hold no counted failure (uncounted failures may lie among them).
C4_SuccessesWithoutCountedFailure ==
    [][/\ cb.state = HALF_OPEN =>
            (cb.success_count = hoSucc /\ NoCounted(hoLog))
       /\ Closes =>
            (hoSucc' = success_threshold /\ NoCounted(hoLog'))]_vars

C4_Witness ==
    /\ cb.state = CLOSED
    /\ lastOp = "success"
    /\ hoSucc = success_threshold
    /\ \E i \in 1..Len(hoLog) : hoLog[i] = "uncounted"

\* C5 as stated: with success_threshold = 2 the breaker is still HALF_OPEN
\* after the second success that follows the timeout.
C5_Original ==
    [][(cb.state = HALF_OPEN /\ lastOp' = "success" /\ hoSucc' = 2)
       => cb'.state = HALF_OPEN]_vars

\* C5 amended: the first call after the timeout moves the breaker to
\* HALF_OPEN as it enters, with success_count cleared, and its success is
\* the first one counted: a success in HALF_OPEN closes the breaker exactly
\* when it is the success_threshold-th since HALF_OPEN was entered (the
\* second, with success_threshold = 2), and leaves it HALF_OPEN before.
C5_ClosesAtThreshold ==
    [][/\ lastOp' = "half_open" =>
            (cb.state = OPEN /\ cb'.state = HALF_OPEN /\ cb'.success_count = 0)
       /\ (cb.state = HALF_OPEN /\ lastOp' = "success") =>
            IF hoSucc' >= success_threshold
            THEN cb'.state = CLOSED /\ hoSucc' = success_threshold
            ELSE cb'.state = HALF_OPEN]_vars

C5_Witness ==
    /\ cb.state = CLOSED
    /\ lastOp = "success"
    /\ hoSucc = success_threshold
    /\ hoLog = <<"ok", "ok">>

\* C6 as stated: once failure_threshold consecutive operations of the
\* adapter have ended in a counted failure, no HTTP request is sent until
\* timeout_seconds have elapsed.
C6_FailFast ==
    [][(opFails >= failure_threshold /\ now - trippedAt < timeout_seconds)
       => ~(op.pc # "post" /\ op'.pc = "post")]_vars

\* The operation waits between two POSTs of the tool request.
BetweenPosts == op.pc \in {"init", "sleep"}

\* C7: one operation POSTs the tool request at most max_retries + 1 times
\* and retries at most max_retries times, every POST that does not end the
\* operation uses up one retry, and a finished operation has returned the
\* response of its last POST or raised the error of its last POST (or what
\* decoding a response body raised).
C7_BoundedRetries ==
    [][/\ op.posts <= max_retries + 1
       /\ (op.pc = "post" \/ BetweenPosts) =>
            (op.attempt <= max_retries /\ op.posts = op.attempt + 1)
       /\ op.pc = "returned" => lastResp.kind = "ok"
       /\ op.pc = "raised" =>
            /\ op.error # NoExc
            /\ lastResp.kind # "ok"
            /\ op.error.kind \notin {"ValueError", "AttributeError"}
                   => op.error = lastResp
       /\ (BetweenPosts /\ op'.pc = "post") =>
            /\ op'.posts = op.posts + 1
            /\ op'.attempt = op.attempt + 1]_vars

C7_Witness ==
    /\ op.pc = "raised"
    /\ op.posts = max_retries + 1
    /\ op.attempt = max_retries + 1
    /\ op.error.kind = "ReadTimeout"

\* C8 as stated: a POST that fails with a 5xx status other than 503 while
\* retries remain is retried, not raised.
C8_Retries5xx ==
    [][(/\ op.pc = "post"
        /\ lastOp' = "post"
        /\ lastResp'.kind = "HTTPStatusError"
        /\ lastResp'.status >= 500
        /\ lastResp'.status # 503
        /\ op.attempt < max_retries)
       => op'.pc \in {"init", "sleep"}]_vars

\* C9 as stated: the counter is the number of callers waiting for the
\* semaphore, is never negative, lets at most max_queue_size callers wait,
\* and is 0 with every permit free once no call is waiting or running.
C9_CounterSymmetric ==
    /\ queue_size = Cardinality(Waiting)
    /\ queue_size >= 0
    /\ Cardinality(Waiting) <= max_queue_size
    /\ (Waiting = {} /\ Running = {}) =>
            (queue_size = 0 /\ permits = max_concurrent)

\* C10: at most max_concurrent wrapped functions run at a time: the running
\* calls, the permits handed to woken waiters and the free permits add up
\* to max_concurrent, and a waiter starts to run only with a permit that a
\* finished call released.
C10_ConcurrencyLimit ==
    /\ Cardinality(Running) <= max_concurrent
    /\ permits = max_concurrent - Cardinality(Running) - Cardinality(Woken)
    /\ permits >= 0

\* A woken waiter has started to run while another caller still waits:
\* every permit is in use.
C10_Witness ==
    /\ lastOp = "acquire"
    /\ Cardinality(Running) = max_concurrent
    /\ \E c \in Tasks : qpc[c] = "waiting"
    /\ permits = 0

\* ------------------------------------------------------------------------
\* Rate limiter properties
\* ------------------------------------------------------------------------
\* The sliding window of a client at the current time: the entries that are
\* not older than window_size_seconds.
WindowRequests(c) ==
    SelectSeq(clients[c].request_timestamps,
              LAMBDA t : t >= now - window_size_seconds)
WindowUsage(c) ==
    SelectSeq(clients[c].token_usage,
              LAMBDA u : u[1] >= now - window_size_seconds)
RECURSIVE SumTokens(_)
SumTokens(usage) ==
    IF usage = <<>> THEN 0 ELSE usage[1][2] + SumTokens(Tail(usage))
WithinCaps(c) ==
    /\ Len(WindowRequests(c)) < requests_per_hour
    /\ SumTokens(WindowUsage(c)) < tokens_per_hour
CarriesMatchingKey ==
    /\ rl_result.admin_key # NoKey
    /\ rl_result.admin_key = rl_config.admin_bypass_key

\* C11 (as stated): check_rate_limit(client) returns allowed if and only if
\* the client's sliding window holds fewer than requests_per_hour entries and
\* a token sum below tokens_per_hour, or the request carries the matching
\* admin key.
C11_Original ==
    lastOp = "check" =>
        (rl_result.allowed <=>
            (WithinCaps(rl_result.client_id) \/ CarriesMatchingKey))

\* C11 (amended): check_rate_limit(client) returns allowed if and only if
\* rate limiting is disabled, or the client's sliding window is within both
\* caps, or the request carries a non-empty admin key equal to the configured
\* admin_bypass_key.
C11_AllowedIff ==
    lastOp = "check" =>
        (rl_result.allowed <=>
            \/ ~rl_config.enable_rate_limiting
            \/ WithinCaps(rl_result.client_id)
            \/ (CarriesMatchingKey /\ rl_result.admin_key # ""))

\* A check refused by the token cap alone (the requests cap is not reached),
\* late enough for entries to have left the window, while another client is
\* within both caps.
C11_Witness ==
    /\ lastOp = "check"
    /\ rl_config.enable_rate_limiting
    /\ ~rl_result.allowed
    /\ now > window_size_seconds + 1
    /\ Len(WindowRequests(rl_result.client_id)) < requests_per_hour
    /\ \E c \in Clients : c # rl_result.client_id /\ WithinCaps(c)

\* ------------------------------------------------------------------------
\* Source-driven fetch properties
\* ------------------------------------------------------------------------
LabelCalls == SelectSeq(fcalls, LAMBDA c : c[1] = "label_values")
SearchCalls == SelectSeq(fcalls, LAMBDA c : c[1] = "datasets_search")
GetCalls == SelectSeq(fcalls, LAMBDA c : c[1] = "datasets_get")
DatasetCalls == SelectSeq(fcalls, LAMBDA c : c[1] # "label_values")
Finished == fx.pc = "done" /\ fx.error = "none"

\* The ids of all the pages served, in order.
RECURSIVE IdsOf(_)
IdsOf(pages) ==
    IF pages = <<>> THEN <<>> ELSE Head(pages).ids \o IdsOf(Tail(pages))

\* The pagination loop has been entered and left without an error.
PagingOver ==
    /\ SearchCalls # <<>>
    /\ fx.pc \in {"gather", "done"}
    /\ fx.error # "upstream_error"

\* The backend reports a page after this one.
ReportsMore(page) == page.has_more /\ page.next_page_token # NoToken
\* has_more without a token to ask with.
Malformed(page) == page.has_more /\ page.next_page_token = NoToken

\* C12: on every entry point the backend paths contacted follow the strategy
\* dispatch table: LABELS_ONLY never calls datasets_search or datasets_get,
\* DATASETS_ONLY never calls a label-values operation, and COMPREHENSIVE
\* attempts both paths.
C12_StrategyTable ==
    /\ freq.merge_strategy = LABELS_ONLY => DatasetCalls = <<>>
    /\ freq.merge_strategy = DATASETS_ONLY => LabelCalls = <<>>
    /\ (freq.merge_strategy = COMPREHENSIVE /\ Finished) =>
           /\ asks_label_values(freq) => LabelCalls # <<>>
           /\ SearchCalls # <<>>

\* C13: with PREFER_FAST, once the label path has yielded a metric point no
\* datasets_search or datasets_get call is made; a dataset call is made only
\* after the label path ended without points, and a fetch through
\* _fetch_from_sources whose labels gave no points does go to the datasets.
C13_PreferFast ==
    freq.merge_strategy = PREFER_FAST =>
        /\ fx.label_points > 0 => DatasetCalls = <<>>
        /\ DatasetCalls # <<>> =>
               /\ fx.label_points = 0
               /\ fcalls[1][1] = "label_values" \/ LabelCalls = <<>>
        /\ (freq.entry = FROM_SOURCES /\ Finished /\ fx.label_points = 0) =>
               SearchCalls # <<>>

\* A PREFER_FAST fetch answered from the label values alone: the label call
\* is the only backend call made.
C13_Witness ==
    /\ freq.entry = FROM_SOURCES
    /\ freq.merge_strategy = PREFER_FAST
    /\ Finished
    /\ fx.label_points > 0
    /\ fcalls = <<<<"label_values", NoToken>>>>

\* The request goes through the pagination loop of _fetch_source_datasets.
Paginates == freq.entry = FROM_SOURCES
WellFormed == \A k \in 1..Len(served) : ~Malformed(served[k])

\* The searches made follow the pages: one per page served (one more while
\* its answer is awaited), the first without a token and each later one
\* with the token of the response before it, every page but the last
\* reporting more; when the loop is left the last page reported no more.
SearchesFollowPages ==
    /\ Len(SearchCalls) \in {Len(served), Len(served) + 1}
    /\ \A k \in 1..Len(SearchCalls) :
           SearchCalls[k][2] =
               IF k = 1 THEN NoToken ELSE served[k - 1].next_page_token
    /\ \A k \in 1..(Len(served) - 1) : served[k].has_more
    /\ PagingOver =>
           /\ ~served[Len(served)].has_more
           /\ Len(SearchCalls) = Len(served)
           /\ fx.dataset_ids = IdsOf(served)

\* Every dataset of every page served was asked for with datasets_get.
EveryDatasetAskedFor ==
    \A k \in 1..Len(served) : \A j \in 1..Len(served[k].ids) :
        \E g \in 1..Len(GetCalls) : GetCalls[g][2] = served[k].ids[j]

Failed(id) == \E j \in 1..Len(fx.failures) : fx.failures[j] = id

\* The responses the fetch received for dataset `id`.
ResponsesFor(id) ==
    {r \in 1..Len(fx.responses) : fx.responses[r].dataset_id = id}

\* Body b is one the plugin is to get from `response`: the response is of
\* b's dataset, and b is its dict content or a dict item of its list content.
HasBody(response, b) ==
    /\ response.dataset_id = b.dataset_id
    /\ LET c == response.content
       IN  \/ c.t = DICT /\ b.item = 0
           \/ c.t = LIST /\ b.item \in 1..Len(c.items) /\ c.items[b.item] = DICT

\* The bodies there could be: the contents and the items of the responses,
\* and whatever was handed to the plugin.
PossibleBodies ==
    {fx.dataset_bodies[m] : m \in 1..Len(fx.dataset_bodies)}
    \cup UNION {{Body(fx.responses[r].dataset_id, item) :
                    item \in 0..Len(fx.responses[r].content.items)} :
                r \in 1..Len(fx.responses)}

\* The place of dataset `id` among the pages served (its first one).
PlaceOf(id) ==
    CHOOSE p \in 1..Len(IdsOf(served)) :
        /\ IdsOf(served)[p] = id
        /\ \A q \in 1..(p - 1) : IdsOf(served)[q] # id

\* The bodies handed to the plugin come in the order of the pages, and
\* within a dataset in the order of its items.
BodiesInPageOrder ==
    \A m, n \in 1..Len(fx.dataset_bodies) :
        m < n =>
            LET a == fx.dataset_bodies[m]
                b == fx.dataset_bodies[n]
            IN  \/ PlaceOf(a.dataset_id) < PlaceOf(b.dataset_id)
                \/ a.dataset_id = b.dataset_id /\ a.item <= b.item

\* How often body b is among the bodies handed to the plugin.
TimesHanded(b) ==
    Cardinality({m \in 1..Len(fx.dataset_bodies) : fx.dataset_bodies[m] = b})
\* How often the pages served dataset `id`.
TimesServed(id) ==
    Cardinality({p \in 1..Len(IdsOf(served)) : IdsOf(served)[p] = id})

\* C14 (amended): the dataset path follows next_page_token until has_more is
\* false: against a backend whose pages with has_more all carry a token it
\* has searched once per page when it leaves the loop, the first search
\* without a token and each later one with the token of the response before
\* it.  Every dataset of every page is then asked for with datasets_get
\* (once for an id that pages repeat), and the fetch goes on when a
\* datasets_get fails as long as at least half of them succeed.  The bodies
\* handed to the plugin are, in page order, those of the datasets that
\* answered: a dict content as it is, every dict item of a list content,
\* and nothing for a dataset whose content is a string or a list without
\* dicts, nor for one whose datasets_get failed.
C14_FollowsPages ==
    (Paginates /\ WellFormed) =>
        /\ SearchesFollowPages
        /\ (PagingOver /\ fx.pc = "done") =>
               /\ EveryDatasetAskedFor
               /\ GetCalls = get_calls(operations(IdsOf(served)))
        /\ (PagingOver /\ Finished) =>
               /\ \A p \in 1..Len(IdsOf(served)) :
                      LET id == IdsOf(served)[p]
                      IN  Cardinality(ResponsesFor(id)) =
                              IF Failed(id) THEN 0 ELSE 1
               /\ \A r \in 1..Len(fx.responses) :
                      TimesServed(fx.responses[r].dataset_id) > 0
               /\ \A b \in PossibleBodies :
                      TimesHanded(b) =
                          Cardinality({r \in 1..Len(fx.responses) :
                                          HasBody(fx.responses[r], b)})
               /\ BodiesInPageOrder
               /\ 2 * Len(fx.failures) <= Len(operations(IdsOf(served)))

\* C14 as stated: when the loop has followed the pages to the end and the
\* fetch has returned, a body of every dataset of every page served has
\* been handed to the plugin.
C14_Original ==
    (Paginates /\ WellFormed) =>
        /\ SearchesFollowPages
        /\ (PagingOver /\ Finished) =>
               \A k \in 1..Len(served) : \A j \in 1..Len(served[k].ids) :
                   \E m \in 1..Len(fx.dataset_bodies) :
                       fx.dataset_bodies[m].dataset_id = served[k].ids[j]

\* The three-page scenario: three pages of two datasets each, the third
\* without has_more, three searches, and six bodies handed to the plugin.
C14_Witness ==
    /\ freq.entry = FROM_SOURCES
    /\ Finished
    /\ Len(served) = 3
    /\ \A k \in 1..Len(served) : Len(served[k].ids) = 2
    /\ WellFormed
    /\ Len(SearchCalls) = 3
    /\ fx.failures = <<>>
    /\ Len(fx.dataset_bodies) = 6
    /\ \A p \in 1..6 : fx.dataset_bodies[p] = Body(IdsOf(served)[p], 0)

\* C15: a source-driven POST /tools/get_key_metrics paginates to fetch all
\* matching datasets: when it has answered from the dataset path, the backend
\* reports no page after the last one it was served.
C15_HttpPaginates ==
    (freq.entry = HTTP /\ Finished /\ SearchCalls # <<>>) =>
        ~ReportsMore(served[Len(served)])

\* C16: if a datasets_search response reports has_more = true but carries no
\* next_page_token, the pagination loop of _fetch_source_datasets ends with
\* that page: it is the last one asked for, and the ids collected up to and
\* including it are the ones fetched with datasets_get (each of them once).
C16_MissingTokenStops ==
    \A k \in 1..Len(served) :
        (freq.entry = FROM_SOURCES /\ Malformed(served[k])) =>
            /\ k = Len(served)
            /\ fx.pc \in {"gather", "done"}
            /\ Len(SearchCalls) = k
            /\ fx.dataset_ids = IdsOf(served)
            /\ fx.pc = "done" =>
                   GetCalls = get_calls(operations(IdsOf(served)))

\* The second page said has_more without a token; the datasets of both pages
\* were fetched and handed on.
C16_Witness ==
    /\ freq.entry = FROM_SOURCES
    /\ Finished
    /\ Len(served) = 2
    /\ Malformed(served[2])
    /\ served[1].ids # <<>> /\ served[2].ids # <<>>
    /\ Len(SearchCalls) = 2
    /\ fx.dataset_bodies =
           [p \in 1..Len(IdsOf(served)) |-> Body(IdsOf(served)[p], 0)]

\* ------------------------------------------------------------------------
\* Partial results properties
\* ------------------------------------------------------------------------
Succeeded == Len(gp.ids) - Cardinality(gp.failed)

\* C17: the fan-out raises if and only if the fraction of fetches that
\* succeeded is strictly below min_success_rate; with min_success_rate = 0.5
\* exactly half succeeding returns a result (the successes) and anything less
\* than half raises.
C17_RaisesBelowMinimum ==
    (lastOp = "gather" /\ gp.ids # <<>>) =>
        /\ gp.result.raised = "RuntimeError" <=>
               Succeeded * 100 < gp.min_rate * Len(gp.ids)
        /\ gp.result.raised \in {"RuntimeError", "no"}
        /\ gp.min_rate = 50 =>
               /\ 2 * Succeeded = Len(gp.ids) => gp.result.raised = "no"
               /\ 2 * Succeeded < Len(gp.ids) => gp.result.raised = "RuntimeError"
        /\ gp.result.raised = "no" =>
               /\ Len(gp.result.successes) = Succeeded
               /\ \A i \in 1..Len(gp.result.successes) :
                      gp.result.successes[i] \notin gp.failed

\* Exactly half of four fetches succeeded against a minimum of 0.5.
C17_Witness ==
    /\ lastOp = "gather"
    /\ gp.min_rate = 50
    /\ Len(gp.ids) = 4
    /\ Cardinality(gp.failed) = 2
    /\ gp.result.raised = "no"
    /\ Len(gp.result.successes) = 2

\* ------------------------------------------------------------------------
\* Merge properties
\* ------------------------------------------------------------------------
\* The merge key of a point: its metric_id and its timestamp as written by
\* isoformat (the same instant written with two UTC offsets gives two keys).
KeyOf(p) == <<p.metric_id, isoformat(p.timestamp)>>
KeysOf(points) == {KeyOf(points[i]) : i \in 1..Len(points)}
PointsOf(points) == {points[i] : i \in 1..Len(points)}
MergedComprehensive == lastOp = "merge" /\ merge_out.strategy = COMPREHENSIVE

\* The list is in (timestamp, metric_id) order.
IsSorted(points) ==
    \A i, j \in 1..Len(points) :
        i < j =>
            \/ points[i].timestamp.instant < points[j].timestamp.instant
            \/ /\ points[i].timestamp.instant = points[j].timestamp.instant
               /\ metric_rank(points[i].metric_id) <= metric_rank(points[j].metric_id)

\* C18: in a COMPREHENSIVE merge every (metric_id, timestamp) key appears at
\* most once in the output, and whenever a key occurs in both the label input
\* and the dataset input the output point for that key is the one from the
\* label input.  (The output has a point for every key of the inputs and
\* holds input points only.)
C18_OncePerKeyLabelsWin ==
    MergedComprehensive =>
        /\ \A i, j \in 1..Len(merge_out.result) :
               i # j => KeyOf(merge_out.result[i]) # KeyOf(merge_out.result[j])
        /\ \A k \in KeysOf(label_in) \cap KeysOf(dataset_in) :
               \A i \in 1..Len(merge_out.result) :
                   KeyOf(merge_out.result[i]) = k =>
                       merge_out.result[i] \in PointsOf(label_in)
        /\ KeysOf(merge_out.result) = KeysOf(label_in) \cup KeysOf(dataset_in)
        /\ PointsOf(merge_out.result) \subseteq
               PointsOf(label_in) \cup PointsOf(dataset_in)

\* A key in both inputs and another one in the datasets only: two points out,
\* the shared key's from the labels.
C18_Witness ==
    /\ MergedComprehensive
    /\ KeysOf(label_in) \cap KeysOf(dataset_in) # {}
    /\ Len(dataset_in) = 2
    /\ Len(merge_out.result) = 2
    /\ \E i \in 1..2 : merge_out.result[i].source = "label_values"
    /\ \E i \in 1..2 : merge_out.result[i].source = "dataset"

\* C19 (as stated): the list the merge step returns is always sorted by
\* (timestamp, metric_id).
C19_Original ==
    lastOp = "merge" => IsSorted(merge_out.result)

\* C19 (amended): a COMPREHENSIVE merge returns its points sorted by
\* (timestamp, metric_id); DATASETS_ONLY and LABELS_ONLY return the dataset
\* and the label list as they are, and PREFER_FAST the label list if it is
\* not empty and the dataset list otherwise, each in the order of extraction.
C19_SortedWhenComprehensive ==
    lastOp = "merge" =>
        /\ merge_out.strategy = COMPREHENSIVE => IsSorted(merge_out.result)
        /\ merge_out.strategy = DATASETS_ONLY => merge_out.result = dataset_in
        /\ merge_out.strategy = LABELS_ONLY => merge_out.result = label_in
        /\ merge_out.strategy = PREFER_FAST =>
               merge_out.result =
                   IF label_in # <<>> THEN label_in ELSE dataset_in

\* A COMPREHENSIVE merge of three points that came in another order than the
\* one they left in.
C19_Witness ==
    /\ MergedComprehensive
    /\ Len(merge_out.result) = 3
    /\ ~IsSorted(dataset_in \o label_in)
    /\ \E i \in 1..3 : merge_out.result[i].source = "label_values"
    /\ \E i \in 1..3 : merge_out.result[i].source = "dataset"

\* ------------------------------------------------------------------------
\* QueryOrchestrator.execute_query
\* ------------------------------------------------------------------------
\* The call is over: execute_query returned, or re-raised what the LLM
\* client raised.
QueryOver(c) == ox[c].pc \in {"returned", "raised"}

\* The call used up its iterations and the last turn left no final answer:
\* its tool calls ran and at least one of them succeeded.
CapReachedWithoutAnswer(c) ==
    /\ ox[c].pc = "returned"
    /\ Len(llm_seen[c]) = max_iterations
    /\ ox[c].tool_call_requests # <<>>
    /\ Len(ox[c].results) = Len(ox[c].tool_call_requests)
    /\ ~all_failed(ox[c].results)

\* The answer returned is the message about the iteration cap.
SaysCapReached(c) ==
    /\ oresult[c].answer.kind = "max_iterations"
    /\ oresult[c].answer = max_iterations_answer(max_iterations)

LlmCallsBounded ==
    \A c \in QueryCalls :
        /\ Len(llm_seen[c]) <= max_iterations
        /\ ox[c].pc # "idle" => ox[c].llm_calls = Len(llm_seen[c])
        /\ ox[c].pc = "returned" => oresult[c].llm_calls = Len(llm_seen[c])
        /\ CapReachedWithoutAnswer(c) => SaysCapReached(c)
        /\ (ox[c].pc = "returned" /\ oresult[c].answer.kind = "max_iterations")
               => CapReachedWithoutAnswer(c)

\* C20: whatever the LLM answers and however the tool calls end, a query
\* makes at most max_iterations LLM calls and then execute_query returns
\* (it raises only what the LLM client raised); when the iterations are
\* used up and the last turn left no final answer, the answer returned is
\* the message about the iteration cap, and that message is returned in no
\* other case.
C20_AtMostMaxIterationsThenReturns ==
    /\ []LlmCallsBounded
    /\ \A c \in QueryCalls : QueryRunning(c) ~> QueryOver(c)

\* A query that used all of its (at least two) iterations on tool calls and
\* was answered with the message about the cap.
C20_Witness ==
    \E c \in QueryCalls :
        /\ CapReachedWithoutAnswer(c)
        /\ SaysCapReached(c)
        /\ max_iterations >= 2
        /\ oresult[c].llm_calls = max_iterations
        /\ Len(oresult[c].tool_calls) >= max_iterations
        /\ \E i \in 1..Len(oresult[c].tool_calls) :
               ~oresult[c].tool_calls[i].success

\* ------------------------------------------------------------------------
\* Tool calls of one LLM turn
\* ------------------------------------------------------------------------
\* The text of the turn in which call c runs its tool calls: the latest
\* assistant message whose parsed calls are the ones c is running.
TurnTexts(c) ==
    {conversation_history[i].content.calls :
        i \in {j \in DOMAIN conversation_history :
                 /\ conversation_history[j].content.kind = "response"
                 /\ parse_tool_calls(conversation_history[j].content.calls)
                        = ox[c].tool_call_requests}}

\* The tools run so far in the turn, in the order they were run.
ToolsRun(c) == [i \in 1..Len(ox[c].results) |-> ox[c].results[i].tool]

IsPrefix(s, t) == Len(s) <= Len(t) /\ s = SubSeq(t, 1, Len(s))

\* C21: while a turn runs its tool calls, the tools run so far are the
\* first ones the response text asks for, in the order of the text.
C21_RunInEmittedOrder ==
    \A c \in QueryCalls :
        (ox[c].pc = "tool" /\ TurnTexts(c) # {}) =>
            \E text \in TurnTexts(c) : IsPrefix(ToolsRun(c), name_of(text))

\* ------------------------------------------------------------------------
\* Parameter normalization
\* ------------------------------------------------------------------------
\* C22: normalizing the result of a normalization gives that result again.
C22_Idempotent ==
    norm.pc = "twice" => norm.twice = norm.once

\* The parameters as they reach the detection of OS identifiers and run
\* types: unwrapped, with synonyms, types, dates and aliases normalized.
Preprocessed ==
    dataset_type_aliases(
        relative_dates(coerce(synonyms(unwrap(norm.raw))), now))

\* The normalized test_id.
NormalizedTestId == get_lower(Preprocessed, "test_id")

\* A normalization that returned.
NormalizedOnce == norm.pc = "once" /\ norm.once.raised = "no"

TestIdCleared == ~has(norm.once.params, "test_id")

\* dataset_types is defaulted when the request gives none, and kept
\* otherwise.
DatasetTypesDefaulted ==
    /\ has(norm.once.params, "dataset_types")
    /\ norm.once.params["dataset_types"] =
           IF truthy(dict_get(Preprocessed, "dataset_types", PyNone))
           THEN Preprocessed["dataset_types"]
           ELSE PyList(<<PyStr("boot-time-verbose")>>)

Recorded(k, value) ==
    has(norm.once.params, k) /\ norm.once.params[k] = PyStr(value)

OsDetected ==
    NormalizedTestId \in known_os_identifiers
        => /\ TestIdCleared
           /\ Recorded("_detected_os_filter", NormalizedTestId)
           /\ DatasetTypesDefaulted

\* C23: a normalized test_id that is a known OS identifier or a
\* known run type is cleared from the result and recorded as
\* _detected_os_filter or _detected_run_type, and an empty dataset_types
\* is defaulted.
C23_ClearedAndRecorded ==
    NormalizedOnce =>
        /\ OsDetected
        /\ NormalizedTestId \in known_run_types
               => /\ TestIdCleared
                  /\ Recorded("_detected_run_type", NormalizedTestId)
                  /\ DatasetTypesDefaulted

\* ------------------------------------------------------------------------
\* Plugins disabled by configuration
\* ------------------------------------------------------------------------
\* The plugins the configuration of the app disables.
DisabledPlugins ==
    IF DOMAIN happ.enabled_plugins = {} THEN {}
    ELSE {pid \in DefaultPlugins :
             pid \notin DOMAIN happ.enabled_plugins
             \/ ~happ.enabled_plugins[pid]}

\* C24: while the app serves requests, a plugin its configuration disables
\* is not in the registry, and a request naming it is answered with
\* unknown_dataset_type.
C24_DisabledPluginAbsent ==
    happ.pc \in {"created", "running"} =>
        /\ registry \cap DisabledPlugins = {}
        /\ (lastOp = "get_key_metrics_raw"
            /\ hreq.dataset_type \in DisabledPlugins)
               => hreq.error_type = "unknown_dataset_type"

\* ------------------------------------------------------------------------
\* C25: a call through the stdio adapter that exceeds the adapter's timeout
\* ends in a failure record of the fan-out whose error type is "timeout"
\* and which is retryable.
\* ------------------------------------------------------------------------
ExceedsTimeout(i) ==
    /\ fanout.sessions[i].exc = NoError
    /\ fanout.sessions[i].seconds > bridge_timeout

C25_TimeoutIsRetryable ==
    \A i \in DOMAIN fanout.sessions :
        ExceedsTimeout(i) =>
            \E k \in DOMAIN fanout.failures :
                /\ fanout.failures[k].identifier = i
                /\ fanout.failures[k].error_type = "timeout"
                /\ fanout.failures[k].retryable

\* ------------------------------------------------------------------------
\* C26: a query to /api/query that contains one of the markers (null
\* byte, IGNORE PREVIOUS, IGNORE ALL, SYSTEM:, </s>, <|endoftext|>), in
\* any letter case, is rejected with 400 before the rate limiter is
\* consulted and before the orchestrator is called.
\* ------------------------------------------------------------------------
Markers ==
    {"NUL", "ignore previous", "ignore all", "system:", "</s>",
     "<|endoftext|>"}

HasMarker(query) == \E i \in DOMAIN query : query[i].text \in Markers

C26_MarkersRejected ==
    \A r \in 1..NumRequests :
        (areq[r].pc # "idle" /\ HasMarker(areq[r].query)) =>
            /\ areq[r].pc = "done"
            /\ areq[r].status_code = 400
            /\ ~areq[r].checked

\* ------------------------------------------------------------------------
\* C27: per client, the requests handed to the orchestrator within any
\* window of window_size_seconds are at most requests_per_hour.
\* ------------------------------------------------------------------------
AdmittedIn(c, from, to) ==
    Cardinality({k \in DOMAIN admitted :
                    /\ admitted[k].client = c
                    /\ admitted[k].at >= from
                    /\ admitted[k].at <= to})

C27_AdmittedWithinLimit ==
    \A c \in Clients, t \in 1..MaxTime :
        AdmittedIn(c, t - window_size_seconds, t) <= requests_per_hour

\* ------------------------------------------------------------------------
\* C28: each query runs against its own conversation: what the LLM is
\* given for a query is the system prompt, that query's user prompt and
\* what that query itself added, and no message of an earlier query.
\* ------------------------------------------------------------------------
OwnConversation(messages, query) ==
    /\ Len(messages) >= 2
    /\ messages[1] = LlmMessage("system", system_prompt)
    /\ messages[2] = LlmMessage("user", create_user_prompt(query))
    /\ \A j \in DOMAIN messages :
           messages[j].content.kind = "user_prompt" => j = 2

C28_OwnConversation ==
    \A c \in QueryCalls :
        \A k \in DOMAIN llm_seen[c] :
            OwnConversation(llm_seen[c][k], ox[c].query)

\* ------------------------------------------------------------------------
\* C29: a COMPREHENSIVE merge removes only dataset points that a label
\* point shadows: every label point is in the output, label points that
\* share metric_id and timestamp and differ in statistic_type included,
\* and so is every dataset point whose key no label point has.
\* ------------------------------------------------------------------------
C29_EveryLabelPointKept ==
    MergedComprehensive =>
        /\ PointsOf(label_in) \subseteq PointsOf(merge_out.result)
        /\ \A i \in 1..Len(dataset_in) :
               KeyOf(dataset_in[i]) \notin KeysOf(label_in)
                   => dataset_in[i] \in PointsOf(merge_out.result)

\* ------------------------------------------------------------------------
\* C30: with the Elasticsearch adapter the dataset pagination loop always
\* terminates: every response with has_more = true carries a
\* next_page_token that lies strictly past the offset that was asked for.
\* ------------------------------------------------------------------------
C30_TokenAdvances ==
    (lastOp \in {"es_search", "es_search_fails"}
         /\ es_resp.pagination.has_more) =>
        /\ token_truthy(es_resp.pagination.next_page_token)
        /\ int(es_resp.pagination.next_page_token) > es_resp.from

====
